---- MODULE Spec2Model ----
(***************************************************************************)
(* HouseholdIQ: ingest, privacy gate, bridging engine, KV cache and graph  *)
(* linker, modelled from the Python sources.                               *)
(*                                                                         *)
(* Strings are sequences of tokens (a token is one character, or one       *)
(* literal of the source such as "device"), so that concatenation, lower() *)
(* and sorted() are computed and not assumed.  Scores are integers in      *)
(* thousandths (1.0 is 1000).                                              *)
(***************************************************************************)
EXTENDS Integers, Sequences, FiniteSets, TLC

VARIABLES
    events,        \* relational table ephemeral_events, in id order (id = index)
    consentRows,   \* number of rows of the relational table consent_flags
    anonRows,      \* event ids having a row in anonymized_events
    celery,        \* tasks sent to the broker and not yet executed
    fuzzyQueue,    \* KV record fuzzyQueueSet/batchQueue, bin batchEvents
    emailIndex,    \* KV set emailIndexSet: hashedEmail -> list of event ids
    dailyAgg,      \* KV set dailyAggSet: date -> (field key -> count)
    nodes,         \* graph nodes, [label, id]
    rels,          \* graph relationships: [type, from, to] -> confidence
    householdRef,  \* KV set bridgeSet: ephem_id -> household_id
    membership,    \* KV set houseSet: household_id -> list of ephem_ids
    edgeBook,      \* KV set houseScoreSet: household_id -> edges, sum, count
    resp,          \* the HTTP response of the last ingest request
    gateIn,        \* privacy-gate harness: the inputs under evaluation
    gateOut,       \* privacy-gate harness: the result ("pending" before)
    inserted,      \* call history: per household the (a, b) passed to AddEdge,
                   \* per relationship the confidences passed to the link calls
    lastCall,      \* call history: the arguments of the last call
    dailyRows,     \* relational table daily_aggregates: [date, field key] -> count
    capRows,       \* relational table frequency_capping: household_id -> row
    flight         \* per process, the call it is in the middle of

vars == <<events, consentRows, anonRows, celery, fuzzyQueue,
          emailIndex, dailyAgg, nodes, rels, householdRef, membership,
          edgeBook, resp, gateIn, gateOut, inserted, lastCall,
          dailyRows, capRows, flight>>

-----------------------------------------------------------------------------
(* Bounds *)

MaxEvents == 2        \* ingest requests per behaviour
MaxMembers == 4       \* cap on the length of one membership list (harness)
MaxIncrements == 3    \* Increment calls per behaviour (daily aggregates on their own)
MaxQueue == 4         \* ids waiting in the fuzzy queue (queue on its own)
MaxRejected == 2      \* rejected ingest requests per behaviour (ingest endpoint on its own)

-----------------------------------------------------------------------------
(* Python values *)

None == <<"<None>">>          \* Python None
Absent == <<"<absent>">>      \* key not present in a dict
EmptyStr == <<>>              \* ""

\* Python truthiness of an Optional[str]
Truthy(v) == v # None /\ v # Absent /\ v # EmptyStr

\* dict.get(key, "") on the partial_keys JSON: the default only replaces a
\* missing key, a stored null comes back as None
GetOr(pk, key) == IF pk[key] = Absent THEN EmptyStr ELSE pk[key]

\* dict.get(key): None for a missing key
Get(pk, key) == IF pk[key] = Absent THEN None ELSE pk[key]

LowerChar(c) ==
    CASE c = "W" -> "w"
      [] c = "H" -> "h"
      [] c = "P" -> "p"
      [] OTHER -> c

\* str.lower()
Lower(s) == [i \in DOMAIN s |-> LowerChar(s[i])]

Max(a, b) == IF a >= b THEN a ELSE b
Min(a, b) == IF a <= b THEN a ELSE b

\* code-point order of the tokens used in ephem ids
Alphabet == <<"1", "2", "A", "B", "C", "D", "|">>
Rank(c) == CHOOSE i \in 1..Len(Alphabet) : Alphabet[i] = c

RECURSIVE StrLeq(_, _)
\* a <= b for Python strings (lexicographic)
StrLeq(a, b) ==
    IF a = <<>> THEN TRUE
    ELSE IF b = <<>> THEN FALSE
    ELSE IF Rank(Head(a)) < Rank(Head(b)) THEN TRUE
    ELSE IF Rank(Head(a)) > Rank(Head(b)) THEN FALSE
    ELSE StrLeq(Tail(a), Tail(b))

\* the salt of settings.GLOBAL_SALT
GLOBAL_SALT == <<"SUPER_SECURE_SALT">>

\* hash_sha256: SHA-256 of "<salt>-<value>", idealised as collision free
hash_sha256(value) == <<"sha256(">> \o GLOBAL_SALT \o <<"-">> \o value \o <<")">>

-----------------------------------------------------------------------------
(* The universe the requests are drawn from *)

EphemA == <<"A">>
EphemB == <<"B">>
EphemC == <<"C">>
EphemIds == {EphemA, EphemB}

Email1 == <<"h", "1">>
Ip1 == <<"i", "p">>
Mobile == <<"m", "o", "b">>
Today == <<"2025-01-01">>

-----------------------------------------------------------------------------
(* KVCache (AerospikeCache) operations on a store record                   *)
(* st = [nodes, rels, ref, members, book]                                  *)

\* "|".join(sorted([ephem_a, ephem_b]))
\* (variant: the key built from the arguments in the order given)
sorted_keyAsGiven(ephem_a, ephem_b) == ephem_a \o <<"|">> \o ephem_b
sorted_key(ephem_a, ephem_b) ==
    IF StrLeq(ephem_a, ephem_b)
    THEN ephem_a \o <<"|">> \o ephem_b
    ELSE ephem_b \o <<"|">> \o ephem_a

\* client.put on bridgeSet: overwrites the mapping of ephemeral_id
set_household_ref(ref, ephemeral_id, household_id) ==
    [e \in DOMAIN ref \cup {ephemeral_id} |->
        IF e = ephemeral_id THEN household_id ELSE ref[e]]

\* list_append on houseSet, creating the record when missing
add_ephemeral_to_household(members, household_id, ephemeral_id) ==
    [h \in DOMAIN members \cup {household_id} |->
        IF h = household_id
        THEN (IF h \in DOMAIN members THEN members[h] ELSE <<>>) \o <<ephemeral_id>>
        ELSE members[h]]

get_ephemerals_in_household(members, household_id) ==
    IF household_id \in DOMAIN members THEN members[household_id] ELSE <<>>

\* the record written for a household that has none (RecordNotFound branch)
NewEdgeRecord(key, score) ==
    [edges |-> [k \in {key} |-> score], sum_score |-> score, count_score |-> 1]

\* the record written when one exists: insert only a key not yet in edges
\* (variant: sum and count grow on every call)
UpdatedEdgeRecordAlwaysAdds(record, key, score) ==
    [edges |-> [k \in DOMAIN record.edges \cup {key} |->
                  IF k \in DOMAIN record.edges THEN record.edges[k] ELSE score],
     sum_score |-> record.sum_score + score,
     count_score |-> record.count_score + 1]
UpdatedEdgeRecord(record, key, score) ==
    IF key \notin DOMAIN record.edges
    THEN [edges |-> [k \in DOMAIN record.edges \cup {key} |->
                        IF k = key THEN score ELSE record.edges[k]],
          sum_score |-> record.sum_score + score,
          count_score |-> record.count_score + 1]
    ELSE record

add_household_edge(book, household_id, ephem_a, ephem_b, score) ==
    LET key == sorted_key(ephem_a, ephem_b)
    IN  [h \in DOMAIN book \cup {household_id} |->
            IF h = household_id
            THEN (IF h \in DOMAIN book
                  THEN UpdatedEdgeRecord(book[h], key, score)
                  ELSE NewEdgeRecord(key, score))
            ELSE book[h]]

\* float(sum_val) / float(count_val), 0.0 without a record or with count 0;
\* in thousandths, rounded down
get_household_average_score(book, household_id) ==
    IF household_id \notin DOMAIN book THEN 0
    ELSE IF book[household_id].count_score = 0 THEN 0
    ELSE book[household_id].sum_score \div book[household_id].count_score

-----------------------------------------------------------------------------
(* GraphLinker (Neo4jAdvancedLinker) *)

Node(label, id) == [label |-> label, id |-> id]
Rel(type, from, to) == [type |-> type, from |-> from, to |-> to]

\* MERGE (a)-[r:type]->(b) ON CREATE SET r.confidence = c
\* SET r.confidence = CASE WHEN r.confidence < c THEN c ELSE r.confidence END
\* (variant: the confidences of the calls add up)
MergeRelSums(rs, key, confidence) ==
    [r \in DOMAIN rs \cup {key} |->
        IF r = key
        THEN (IF key \in DOMAIN rs THEN rs[key] + confidence ELSE confidence)
        ELSE rs[r]]
\* (variant: the confidence of the last call is stored)
MergeRelLastWins(rs, key, confidence) ==
    [r \in DOMAIN rs \cup {key} |-> IF r = key THEN confidence ELSE rs[r]]
MergeRel(rs, key, confidence) ==
    [r \in DOMAIN rs \cup {key} |->
        IF r = key
        THEN (IF key \in DOMAIN rs
              THEN (IF rs[key] < confidence THEN confidence ELSE rs[key])
              ELSE confidence)
        ELSE rs[r]]

\* MERGE (e:Event {id: event.ephem_id})
merge_event_node(st, event) ==
    [st EXCEPT !.nodes = @ \cup {Node("Event", event.ephem_id)}]

link_event_to_device(st, event_id, device_id, confidence) ==
    [st EXCEPT
        !.nodes = @ \cup {Node("Device", device_id), Node("Event", event_id)},
        !.rels = MergeRel(@, Rel("FROM_DEVICE", event_id, device_id), confidence)]

link_device_to_user(st, device_id, user_id, confidence) ==
    [st EXCEPT
        !.nodes = @ \cup {Node("User", user_id), Node("Device", device_id)},
        !.rels = MergeRel(@, Rel("USED_BY", device_id, user_id), confidence)]

link_user_to_household(st, user_id, household_id, confidence) ==
    [st EXCEPT
        !.nodes = @ \cup {Node("Household", household_id), Node("User", user_id)},
        !.rels = MergeRel(@, Rel("MEMBER_OF", user_id, household_id), confidence)]

-----------------------------------------------------------------------------
(* Scorer *)

\* 1.0 in thousandths
ScoreOne == 1000

\* settings.BRIDGING_CONFIDENCE_THRESHOLD, default "0.7"
BRIDGING_CONFIDENCE_THRESHOLD == 700

\* DEFAULT_PARTIAL_KEY_WEIGHTS, in dict order
WeightKeys == <<"hashedEmail", "hashedIP", "wifiSSID", "deviceType", "profileID">>
DEFAULT_PARTIAL_KEY_WEIGHTS ==
    [hashedEmail |-> 1000, hashedIP |-> 900, wifiSSID |-> 300,
     deviceType |-> 200, profileID |-> 200]

\* no bridging_config row: get_partial_key_weights returns the defaults
get_partial_key_weights == DEFAULT_PARTIAL_KEY_WEIGHTS

\* no ml_bridging_thresholds row and no bridging_config row: the setting
get_bridging_threshold == BRIDGING_CONFIDENCE_THRESHOLD

\* bc.time_decay_factor if (bc and bc.time_decay_factor) else 0.5
time_decay_factor == ScoreOne \div 2

RECURSIVE LevDist(_, _)
\* Levenshtein.distance
LevDist(a, b) ==
    IF a = <<>> THEN Len(b)
    ELSE IF b = <<>> THEN Len(a)
    ELSE IF Head(a) = Head(b) THEN LevDist(Tail(a), Tail(b))
    ELSE 1 + Min(LevDist(Tail(a), b),
                 Min(LevDist(a, Tail(b)), LevDist(Tail(a), Tail(b))))

\* fuzzy_similarity dividing by the length of its first argument
fuzzy_similarityByFirst(str_a, str_b) ==
    IF str_a = <<>> \/ str_b = <<>> THEN 0
    ELSE ScoreOne - (ScoreOne * LevDist(Lower(str_a), Lower(str_b)))
                        \div Len(str_a)

\* fuzzy_similarity, in thousandths
fuzzy_similarity(str_a, str_b) ==
    IF str_a = <<>> \/ str_b = <<>> THEN 0
    ELSE ScoreOne - (ScoreOne * LevDist(Lower(str_a), Lower(str_b)))
                        \div Max(Len(str_a), Len(str_b))

RECURSIVE DecayPow(_, _)
\* time_decay_factor ** (time_diff_hours / 24.0), timestamps in whole days
DecayPow(decay, days) ==
    IF days = 0 THEN ScoreOne ELSE (decay * DecayPow(decay, days - 1)) \div ScoreOne

AbsDiff(a, b) == IF a >= b THEN a - b ELSE b - a

RECURSIVE ScoreLoop(_, _, _, _, _, _)
\* the loop over partial_key_weights.items(); [raised, score].  .lower() is
\* called on both values before the emptiness test, so a stored null raises
ScoreLoop(pk_a, pk_b, recency, weights, k, score) ==
    IF k > Len(WeightKeys) THEN [raised |-> FALSE, score |-> score]
    ELSE LET key == WeightKeys[k]
             raw_a == GetOr(pk_a, key)
             raw_b == GetOr(pk_b, key)
         IN  IF raw_a = None \/ raw_b = None
             THEN [raised |-> TRUE, score |-> score]
             ELSE LET val_a == Lower(raw_a)
                      val_b == Lower(raw_b)
                      add == IF val_a = <<>> \/ val_b = <<>> THEN 0
                             ELSE IF key = "hashedEmail" /\ val_a = val_b
                                  THEN weights[key]
                                  ELSE (weights[key] * fuzzy_similarity(val_a, val_b)
                                          * recency) \div (ScoreOne * ScoreOne)
                  IN  ScoreLoop(pk_a, pk_b, recency, weights, k + 1, score + add)

\* compute_confidence whose first test compares hashedEmail as stored
compute_confidenceCaseSensitive(pk_a, pk_b, t_a, t_b, partial_key_weights, decay) ==
    IF /\ Truthy(Get(pk_a, "hashedEmail"))
       /\ Truthy(Get(pk_b, "hashedEmail"))
       /\ pk_a.hashedEmail = pk_b.hashedEmail
    THEN [raised |-> FALSE, score |-> ScoreOne]
    ELSE LET r == ScoreLoop(pk_a, pk_b, DecayPow(decay, AbsDiff(t_a, t_b)),
                            partial_key_weights, 1, 0)
         IN  [raised |-> r.raised, score |-> Min(r.score, ScoreOne)]

\* compute_confidence: [raised, score]
compute_confidence(pk_a, pk_b, t_a, t_b, partial_key_weights, decay) ==
    IF /\ Truthy(Get(pk_a, "hashedEmail"))
       /\ Truthy(Get(pk_b, "hashedEmail"))
       /\ Lower(pk_a.hashedEmail) = Lower(pk_b.hashedEmail)
    THEN [raised |-> FALSE, score |-> ScoreOne]
    ELSE LET r == ScoreLoop(pk_a, pk_b, DecayPow(decay, AbsDiff(t_a, t_b)),
                            partial_key_weights, 1, 0)
         IN  [raised |-> r.raised, score |-> Min(r.score, ScoreOne)]

-----------------------------------------------------------------------------
(* BridgingEngine: advanced_bridging *)

\* EphemeralEvent.is_child: partial_keys["isChild"] when it is a bool
is_child(ev) == ev.partial_keys.isChild

\* EphemeralEvent maps no device_child_flag column and defines no such
\* property: reading ev.device_child_flag raises AttributeError
device_child_flag(ev) == "AttributeError"

\* the three tests at the head of the loop body: "skip" (continue), "raise"
\* (the exception leaves advanced_bridging) or "pass"
\* (variants: the guard without its child test, and without its consent test)
OtherGuardNoChild(new_event, ev) ==
    IF ev.id = new_event.id THEN "skip"
    ELSE IF ~ev.consent THEN "skip"
    ELSE "pass"
OtherGuardNoConsent(new_event, ev) ==
    IF ev.id = new_event.id THEN "skip"
    ELSE IF is_child(ev) \/ ev.partial_keys.deviceChildFlag THEN "skip"
    ELSE "pass"
OtherGuard(new_event, ev) ==
    IF ev.id = new_event.id THEN "skip"
    ELSE IF ~ev.consent THEN "skip"
    ELSE IF is_child(ev) THEN "skip"
    ELSE IF device_child_flag(ev) = "AttributeError" THEN "raise"
    ELSE IF device_child_flag(ev) = TRUE THEN "skip"
    ELSE "pass"

\* (variant of the household block: the shared-wifi branch records no edge)
PublishHouseholdNoEdge(st, new_event, ev, wifi_a, shared, user_a, user_b, score) ==
    IF shared
    THEN LET hh_merged == hash_sha256(wifi_a \o <<"household">>)
             g1 == link_user_to_household(st, user_a, hh_merged, score)
             g2 == link_user_to_household(g1, user_b, hh_merged, score)
             r1 == set_household_ref(g2.ref, new_event.ephem_id, hh_merged)
             r2 == set_household_ref(r1, ev.ephem_id, hh_merged)
             m1 == add_ephemeral_to_household(g2.members, hh_merged, new_event.ephem_id)
             m2 == add_ephemeral_to_household(m1, hh_merged, ev.ephem_id)
         IN  [g2 EXCEPT !.ref = r2, !.members = m2]
    ELSE LET hh_a == hash_sha256(user_a \o <<"soloHouse">>)
             hh_b == hash_sha256(user_b \o <<"soloHouse">>)
             g1 == link_user_to_household(st, user_a, hh_a, score)
             g2 == link_user_to_household(g1, user_b, hh_b, score)
             r1 == set_household_ref(g2.ref, new_event.ephem_id, hh_a)
             r2 == set_household_ref(r1, ev.ephem_id, hh_b)
         IN  [g2 EXCEPT !.ref = r2]

\* the household block of the loop body, st already holding the user links
PublishHousehold(st, new_event, ev, wifi_a, shared, user_a, user_b, score) ==
    IF shared
    THEN LET hh_merged == hash_sha256(wifi_a \o <<"household">>)
             g1 == link_user_to_household(st, user_a, hh_merged, score)
             g2 == link_user_to_household(g1, user_b, hh_merged, score)
             r1 == set_household_ref(g2.ref, new_event.ephem_id, hh_merged)
             r2 == set_household_ref(r1, ev.ephem_id, hh_merged)
             m1 == add_ephemeral_to_household(g2.members, hh_merged, new_event.ephem_id)
             m2 == add_ephemeral_to_household(m1, hh_merged, ev.ephem_id)
             b1 == add_household_edge(g2.book, hh_merged, new_event.ephem_id,
                                      ev.ephem_id, score)
         IN  [g2 EXCEPT !.ref = r2, !.members = m2, !.book = b1]
    ELSE LET hh_a == hash_sha256(user_a \o <<"soloHouse">>)
             hh_b == hash_sha256(user_b \o <<"soloHouse">>)
             g1 == link_user_to_household(st, user_a, hh_a, score)
             g2 == link_user_to_household(g1, user_b, hh_b, score)
             r1 == set_household_ref(g2.ref, new_event.ephem_id, hh_a)
             r2 == set_household_ref(r1, ev.ephem_id, hh_b)
         IN  [g2 EXCEPT !.ref = r2]

\* the loop body after the threshold test: device, user and household links
\* and the KV publication; [st, raised].  A stored null in hashedIP,
\* deviceType, hashedEmail or profileID raises where the code concatenates or
\* lowers it, after the writes already made
LinkPair(st, new_event, ev, score) ==
    LET pa == new_event.partial_keys
        pb == ev.partial_keys
        ip_a == GetOr(pa, "hashedIP")
        ip_b == GetOr(pb, "hashedIP")
        dt_a == GetOr(pa, "deviceType")
        dt_b == GetOr(pb, "deviceType")
    IN  IF None \in {ip_a, ip_b, dt_a, dt_b} THEN [st |-> st, raised |-> TRUE]
        ELSE
        LET device_id_a == hash_sha256(Lower(ip_a \o dt_a) \o <<"device">>)
            device_id_b == hash_sha256(Lower(ip_b \o dt_b) \o <<"device">>)
            wifi_a == GetOr(pa, "wifiSSID")
            wifi_b == GetOr(pb, "wifiSSID")
            shared == Truthy(wifi_a) /\ Truthy(wifi_b) /\ Lower(wifi_a) = Lower(wifi_b)
            merged_dev == hash_sha256(wifi_a \o <<"mergedDevice">>)
            dev_id_a_final == IF shared THEN merged_dev ELSE device_id_a
            dev_id_b_final == IF shared THEN merged_dev ELSE device_id_b
            s1 == link_event_to_device(st, new_event.ephem_id, dev_id_a_final, score)
            s2 == link_event_to_device(s1, ev.ephem_id, dev_id_b_final, score)
            prof_a == GetOr(pa, "profileID")
            prof_b == GetOr(pb, "profileID")
            raw_email_a == GetOr(pa, "hashedEmail")
            raw_email_b == GetOr(pb, "hashedEmail")
        IN  IF raw_email_a = None \/ raw_email_b = None
            THEN [st |-> s2, raised |-> TRUE]
            ELSE
            LET hashedEmailA == Lower(raw_email_a)
                hashedEmailB == Lower(raw_email_b)
                sameEmail == hashedEmailA # <<>> /\ hashedEmailA = hashedEmailB
                sameProfile == /\ Truthy(prof_a) /\ Truthy(prof_b)
                               /\ Lower(prof_a) = Lower(prof_b)
            IN  IF ~sameEmail /\ ~sameProfile /\ (prof_a = None \/ prof_b = None)
                THEN [st |-> s2, raised |-> TRUE]
                ELSE
                LET user_a == IF sameEmail THEN hash_sha256(hashedEmailA \o <<"sameUser">>)
                              ELSE IF sameProfile THEN hash_sha256(prof_a \o <<"sameUser">>)
                              ELSE hash_sha256(dev_id_a_final \o prof_a \o hashedEmailA
                                                  \o <<"user">>)
                    user_b == IF sameEmail \/ sameProfile THEN user_a
                              ELSE hash_sha256(dev_id_b_final \o prof_b \o hashedEmailB
                                                  \o <<"user">>)
                    s3 == link_device_to_user(s2, dev_id_a_final, user_a, score)
                    s4 == link_device_to_user(s3, dev_id_b_final, user_b, score)
                IN  [st |-> PublishHousehold(s4, new_event, ev, wifi_a, shared,
                                             user_a, user_b, score),
                     raised |-> FALSE]

\* the loop body from compute_confidence on, for a pair that passed the guard
BridgePair(st, new_event, ev) ==
    LET c == compute_confidence(new_event.partial_keys, ev.partial_keys,
                                new_event.timestamp, ev.timestamp,
                                get_partial_key_weights, time_decay_factor)
    IN  IF c.raised THEN [st |-> st, raised |-> TRUE]
        ELSE IF c.score < get_bridging_threshold THEN [st |-> st, raised |-> FALSE]
        ELSE LinkPair(st, new_event, ev, c.score)

RECURSIVE BridgeLoop(_, _, _, _)
\* for ev in recent_events, from position k on; [st, raised]
BridgeLoop(st, new_event, recent_events, k) ==
    IF k > Len(recent_events) THEN [st |-> st, raised |-> FALSE]
    ELSE LET g == OtherGuard(new_event, recent_events[k])
         IN  IF g = "skip" THEN BridgeLoop(st, new_event, recent_events, k + 1)
             ELSE IF g = "raise" THEN [st |-> st, raised |-> TRUE]
             ELSE LET r == BridgePair(st, new_event, recent_events[k])
                  IN  IF r.raised THEN r
                      ELSE BridgeLoop(r.st, new_event, recent_events, k + 1)

\* advanced_bridging(new_event, recent_events, ...)
advanced_bridging(st, new_event, recent_events) ==
    BridgeLoop(merge_event_node(st, new_event), new_event, recent_events, 1)

\* settings.USE_NEO4J_BRIDGING, default "true"
USE_NEO4J_BRIDGING == TRUE

\* attempt_bridging, with unified_neo4j_bridging_advanced inlined: every row
\* of ephemeral_events is inside the retention window; [st, raised]
attempt_bridging(st, new_event, all_events) ==
    IF ~new_event.consent THEN [st |-> st, raised |-> FALSE]
    ELSE IF new_event.partial_keys.isChild \/ new_event.partial_keys.deviceChildFlag
         THEN [st |-> st, raised |-> FALSE]
    ELSE IF ~USE_NEO4J_BRIDGING THEN [st |-> st, raised |-> FALSE]
    ELSE advanced_bridging(st, new_event, all_events)

-----------------------------------------------------------------------------
(* PrivacyGate *)

DEFAULT_VENDOR_ID == 333

\* A TCF string is modelled by what iab_tcf.decode makes of it: whether it
\* decodes, and the vendors and purposes the decoded consent allows
TcfAbsent == [present |-> FALSE, decodes |-> FALSE, vendors |-> {}, purposes |-> {}]

\* parse_us_privacy_string
parse_us_privacy_string(usp) ==
    IF usp = None \/ usp = EmptyStr \/ Len(usp) < 4
    THEN [version |-> None, region |-> None, opt_out_sale |-> None, lspa |-> None]
    ELSE [version |-> <<usp[1]>>, region |-> <<usp[2]>>,
          opt_out_sale |-> <<usp[3]>>, lspa |-> <<usp[4]>>]

\* parse_tcf_string
parse_tcf_string(tcf) ==
    IF ~tcf.present \/ ~tcf.decodes
    THEN [valid |-> FALSE, purposes_allowed |-> {}, vendors_allowed |-> {},
          vendor_consented |-> FALSE]
    ELSE [valid |-> TRUE,
          purposes_allowed |-> {pid \in 1..24 : pid \in tcf.purposes},
          vendors_allowed |-> {vid \in 1..500 : vid \in tcf.vendors},
          vendor_consented |-> DEFAULT_VENDOR_ID \in tcf.vendors]

\* _parse_privacy_signals: {} for a signal that is missing or empty
EmptyTcfData ==
    [valid |-> FALSE, purposes_allowed |-> {}, vendors_allowed |-> {},
     vendor_consented |-> FALSE]
EmptyUsData == [version |-> None, region |-> None, opt_out_sale |-> None, lspa |-> None]
ParseSignalsTcf(tcf) == IF tcf.present THEN parse_tcf_string(tcf) ELSE EmptyTcfData
ParseSignalsUs(usp) ==
    IF Truthy(usp) THEN parse_us_privacy_string(usp) ELSE EmptyUsData

\* user_allows_bridging
\* (variant: purpose 1 alone required)
user_allows_bridgingOnePurpose(tcf_data, us_privacy_data) ==
    IF tcf_data.valid /\ ~tcf_data.vendor_consented THEN FALSE
    ELSE IF tcf_data.valid /\ ~(1 \in tcf_data.purposes_allowed) THEN FALSE
    ELSE IF us_privacy_data.region = <<"C">> /\ us_privacy_data.opt_out_sale = <<"Y">>
         THEN FALSE
    ELSE TRUE
user_allows_bridging(tcf_data, us_privacy_data) ==
    IF tcf_data.valid /\ ~tcf_data.vendor_consented THEN FALSE
    ELSE IF tcf_data.valid /\ ~({1, 2} \subseteq tcf_data.purposes_allowed) THEN FALSE
    ELSE IF us_privacy_data.region = <<"C">> /\ us_privacy_data.opt_out_sale = <<"Y">>
         THEN FALSE
    ELSE TRUE

\* ingest_event, step 3: final_cross_device
final_cross_device(cross_device_bridging, tcf, usp) ==
    cross_device_bridging
        /\ user_allows_bridging(ParseSignalsTcf(tcf), ParseSignalsUs(usp))

-----------------------------------------------------------------------------
(* Ingest service and Celery tasks *)

Digits == <<"1", "2", "3", "4", "5", "6", "7", "8", "9">>
\* str(event_id) and its reading back by the relational lookup
IdStr(i) == <<Digits[i]>>
ParseId(str) == CHOOSE i \in 1..Len(Digits) : <<Digits[i]>> = str

Wifi1 == <<"w", "1">>

\* partial_keys as sent by a partner
RequestKeys(email, ip, isChild, deviceChildFlag, wifi) ==
    [hashedEmail |-> email, hashedIP |-> ip, deviceType |-> Mobile,
     isChild |-> isChild, deviceChildFlag |-> deviceChildFlag,
     wifiSSID |-> wifi, profileID |-> Absent]

\* the request bodies of the model: [cross_device_bridging, partial_keys]
RequestShapes ==
    { [cross_device_bridging |-> TRUE,
       partial_keys |-> RequestKeys(Email1, Ip1, FALSE, FALSE, Absent)],
      [cross_device_bridging |-> FALSE,
       partial_keys |-> RequestKeys(Email1, Ip1, FALSE, FALSE, Absent)],
      [cross_device_bridging |-> TRUE,
       partial_keys |-> RequestKeys(Email1, Ip1, TRUE, FALSE, Absent)],
      [cross_device_bridging |-> TRUE,
       partial_keys |-> RequestKeys(Email1, Ip1, FALSE, TRUE, Absent)],
      [cross_device_bridging |-> TRUE,
       partial_keys |-> RequestKeys(Absent, Ip1, FALSE, FALSE, Absent)],
      [cross_device_bridging |-> TRUE,
       partial_keys |-> RequestKeys(Email1, Absent, FALSE, FALSE, Absent)],
      [cross_device_bridging |-> FALSE,
       partial_keys |-> RequestKeys(Email1, Ip1, TRUE, FALSE, Absent)],
      [cross_device_bridging |-> TRUE,
       partial_keys |-> RequestKeys(Email1, Absent, TRUE, FALSE, Absent)],
      [cross_device_bridging |-> TRUE,
       partial_keys |-> RequestKeys(Email1, Ip1, FALSE, FALSE, Wifi1)] }

\* a TCF string that decodes and allows neither the vendor nor a purpose
TcfDeny == [present |-> TRUE, decodes |-> TRUE, vendors |-> {}, purposes |-> {}]
RequestTcf == {TcfAbsent, TcfDeny}

Usp1YYY == <<"1", "Y", "Y", "Y">>
Usp1CYN == <<"1", "C", "Y", "N">>
RequestUsp == {None, Usp1YYY, Usp1CYN}

\* PartialKeys.dict(): the five declared fields, None for an optional one
\* that was not sent; every other key of the request is dropped
PartialKeysDict(pk) ==
    [hashedEmail |-> Get(pk, "hashedEmail"),
     deviceType |-> Lower(pk.deviceType),
     isChild |-> pk.isChild,
     deviceChildFlag |-> pk.deviceChildFlag,
     hashedIP |-> Get(pk, "hashedIP"),
     wifiSSID |-> Absent,
     profileID |-> Absent]

\* _create_ephemeral_event: the row, with its consent_flags joined
NewEventRow(id, device_data, shape) ==
    [id |-> id, ephem_id |-> device_data,
     partial_keys |-> PartialKeysDict(shape.partial_keys),
     consent |-> shape.cross_device_bridging,
     event_type |-> "impression", partner_id |-> 1, timestamp |-> 0]

\* _handle_bridging: the result string
HandleBridging(event) ==
    IF event.partial_keys.isChild \/ event.partial_keys.deviceChildFlag
    THEN "CHILD_FLAG"
    ELSE IF ~event.consent THEN "NO_CONSENT_OR_FLAGS"
    ELSE IF ~Truthy(Get(event.partial_keys, "hashedEmail")) THEN "NO_HASHED_EMAIL"
    ELSE "BRIDGING_QUEUED"

Task(name, event_id, hashed_email) ==
    [name |-> name, event_id |-> event_id, hashed_email |-> hashed_email]

\* _queue_tasks: the two tasks sent for an event that has a hashed email
QueueTasks(event) ==
    { Task("queue_fuzzy_bridging", event.id, None),
      Task("short_circuit_deterministic", event.id, event.partial_keys.hashedEmail) }

\* _queue_tasks: the task id returned as bridging_token
TaskToken(event) == IdStr(event.id) \o <<"_">> \o event.partial_keys.hashedEmail

\* _create_anonymized_event: hashedIP + deviceType raises TypeError for a
\* null hashedIP, which the handler turns into HTTP 500
AnonymizeRaises(partial_keys) ==
    GetOr(partial_keys, "hashedIP") = None \/ GetOr(partial_keys, "deviceType") = None

\* field_key = f"{partner_id}|{device_type}|{event_type}"
FieldKey(partner_id, device_type, event_type) ==
    IdStr(partner_id) \o <<"|">> \o device_type \o <<"|">> \o <<event_type>>

\* buffer_increment_daily_aggregate
IncDaily(agg, date_str, field_key) ==
    IF date_str \notin DOMAIN agg
    THEN [d \in DOMAIN agg \cup {date_str} |->
            IF d = date_str THEN [f \in {field_key} |-> 1] ELSE agg[d]]
    ELSE [agg EXCEPT ![date_str] =
            [f \in DOMAIN @ \cup {field_key} |->
                IF f = field_key
                THEN (IF f \in DOMAIN @ THEN @[f] ELSE 0) + 1
                ELSE @[f]]]

NoResponse ==
    [status |-> 0, event_id |-> 0, bridging_skip_reason |-> "none",
     bridging_token |-> None, cross_device_bridging |-> FALSE,
     tcf |-> TcfAbsent, usp |-> None]

Store ==
    [nodes |-> nodes, rels |-> rels, ref |-> householdRef,
     members |-> membership, book |-> edgeBook]

SetStore(st) ==
    /\ nodes' = st.nodes
    /\ rels' = st.rels
    /\ householdRef' = st.ref
    /\ membership' = st.members
    /\ edgeBook' = st.book

EmptyFn == [x \in {} |-> 0]

InitSystem ==
    /\ events = <<>>
    /\ consentRows = 0
    /\ anonRows = {}
    /\ celery = {}
    /\ fuzzyQueue = <<>>
    /\ emailIndex = EmptyFn
    /\ dailyAgg = EmptyFn
    /\ resp = NoResponse

InitStore ==
    /\ nodes = {}
    /\ rels = EmptyFn
    /\ householdRef = EmptyFn
    /\ membership = EmptyFn
    /\ edgeBook = EmptyFn

InitTables ==
    /\ dailyRows = EmptyFn
    /\ capRows = EmptyFn

InitNoFlight == flight = EmptyFn

InitGateOff ==
    /\ gateIn = <<>>
    /\ gateOut = "off"

InitKVOff ==
    /\ inserted = EmptyFn
    /\ lastCall = <<>>

Init == InitSystem /\ InitStore /\ InitTables /\ InitNoFlight /\ InitGateOff /\ InitKVOff

\* POST /v1/ingest (ingest_event), one request from start to response
Ingest ==
    /\ Len(events) < MaxEvents
    /\ \E shape \in RequestShapes, device_data \in EphemIds,
          tcf \in RequestTcf, usp \in RequestUsp :
        LET event == NewEventRow(Len(events) + 1, device_data, shape)
            result == HandleBridging(event)
            queued == result = "BRIDGING_QUEUED"
            failed == AnonymizeRaises(PartialKeysDict(shape.partial_keys))
        IN  /\ consentRows' = consentRows + 1
            /\ events' = Append(events, event)
            /\ celery' = IF queued THEN celery \cup QueueTasks(event) ELSE celery
            /\ anonRows' = IF failed THEN anonRows ELSE anonRows \cup {event.id}
            /\ dailyAgg' = IF failed THEN dailyAgg
                           ELSE IncDaily(dailyAgg, Today,
                                         FieldKey(event.partner_id,
                                                  event.partial_keys.deviceType,
                                                  event.event_type))
            /\ resp' = [status |-> IF failed THEN 500 ELSE 200,
                        event_id |-> event.id,
                        bridging_skip_reason |->
                            IF ~failed /\ result \in {"NO_CONSENT_OR_FLAGS", "CHILD_FLAG"}
                            THEN result ELSE "none",
                        bridging_token |->
                            IF ~failed /\ queued THEN TaskToken(event) ELSE None,
                        cross_device_bridging |-> shape.cross_device_bridging,
                        tcf |-> tcf, usp |-> usp]
    /\ UNCHANGED <<fuzzyQueue, emailIndex, nodes, rels, householdRef, membership,
                   edgeBook, gateIn, dailyRows, capRows, flight, gateOut, inserted, lastCall>>

\* enqueue_fuzzy_event: list_append of str(event_id) on the batchEvents bin,
\* the record being created when missing (the queue is <<>> without record)
enqueue_fuzzy_event(queue, event_id) == Append(queue, IdStr(event_id))

\* pop_fuzzy_batch: [batch, queue], the list read and the record removed
\* (variant: the record is left in place)
pop_fuzzy_batchKeeps(queue) == [batch |-> queue, queue |-> queue]
pop_fuzzy_batch(queue) == [batch |-> queue, queue |-> <<>>]

\* Celery task queue_fuzzy_bridging: enqueue_fuzzy_event
QueueFuzzyTask ==
    \E t \in celery :
        /\ t.name = "queue_fuzzy_bridging"
        /\ celery' = celery \ {t}
        /\ fuzzyQueue' = enqueue_fuzzy_event(fuzzyQueue, t.event_id)
        /\ UNCHANGED <<events, consentRows, anonRows, emailIndex, dailyAgg,
                       nodes, rels, householdRef, membership, edgeBook, resp,
                       gateIn, dailyRows, capRows, flight, gateOut, inserted, lastCall>>

\* Celery beat task batch_fuzzy_bridging: pop_fuzzy_batch, then one
\* bridging_fuzzy task per id of the batch
BatchDrain ==
    /\ fuzzyQueue # <<>>
    /\ LET popped == pop_fuzzy_batch(fuzzyQueue)
           batch == {Task("bridging_fuzzy", ParseId(popped.batch[i]), None) :
                        i \in 1..Len(popped.batch)}
       IN  /\ celery' = celery \cup batch
           /\ fuzzyQueue' = popped.queue
    /\ UNCHANGED <<events, consentRows, anonRows, emailIndex, dailyAgg,
                   nodes, rels, householdRef, membership, edgeBook, resp,
                   gateIn, dailyRows, capRows, flight, gateOut, inserted, lastCall>>

\* asyncio.run(attempt_bridging(...)): attempt_bridging is a plain function,
\* so it runs to its end and asyncio.run then raises ValueError for the None
\* it returned
AsyncioRunRaises == TRUE

\* (variant of bridging_fuzzy: an exception ends the whole group, the tasks of
\* the other ids being dropped)
BridgingFuzzyTaskAbortsGroup ==
    \E t \in celery :
        /\ t.name = "bridging_fuzzy"
        /\ celery' = {u \in celery : u.name # "bridging_fuzzy"}
        /\ IF t.event_id \in 1..Len(events)
           THEN SetStore(attempt_bridging(Store, events[t.event_id], events).st)
           ELSE UNCHANGED <<nodes, rels, householdRef, membership, edgeBook>>
        /\ UNCHANGED <<events, consentRows, anonRows, fuzzyQueue,
                       emailIndex, dailyAgg, resp, gateIn, dailyRows, capRows, flight, gateOut, inserted, lastCall>>

\* Celery task bridging_fuzzy; the exception is caught and logged
BridgingFuzzyTask ==
    \E t \in celery :
        /\ t.name = "bridging_fuzzy"
        /\ celery' = celery \ {t}
        /\ IF t.event_id \in 1..Len(events)
           THEN SetStore(attempt_bridging(Store, events[t.event_id], events).st)
           ELSE UNCHANGED <<nodes, rels, householdRef, membership, edgeBook>>
        /\ UNCHANGED <<events, consentRows, anonRows, fuzzyQueue,
                       emailIndex, dailyAgg, resp, gateIn, dailyRows, capRows, flight, gateOut, inserted, lastCall>>

\* index_hashed_email
index_hashed_email(index, hashed_email, event_id) ==
    [e \in DOMAIN index \cup {hashed_email} |->
        IF e = hashed_email
        THEN (IF e \in DOMAIN index THEN index[e] ELSE <<>>) \o <<IdStr(event_id)>>
        ELSE index[e]]

\* Celery task short_circuit_deterministic; an exception skips the token and
\* the email index and is caught and logged
DeterministicTask ==
    \E t \in celery :
        /\ t.name = "short_circuit_deterministic"
        /\ celery' = celery \ {t}
        /\ LET ev == events[t.event_id]
               child == ev.partial_keys.isChild \/ ev.partial_keys.deviceChildFlag
               r == attempt_bridging(Store, ev, events)
           IN  IF child
               THEN UNCHANGED <<nodes, rels, householdRef, membership, edgeBook,
                                emailIndex>>
               ELSE /\ SetStore(r.st)
                    /\ emailIndex' =
                         IF r.raised \/ AsyncioRunRaises THEN emailIndex
                         ELSE index_hashed_email(emailIndex, t.hashed_email, t.event_id)
        /\ UNCHANGED <<events, consentRows, anonRows, fuzzyQueue,
                       dailyAgg, resp, gateIn, dailyRows, capRows, flight, gateOut, inserted, lastCall>>

Next ==
    \/ Ingest
    \/ QueueFuzzyTask
    \/ BatchDrain
    \/ BridgingFuzzyTask
    \/ DeterministicTask

Spec == Init /\ [][Next]_vars

-----------------------------------------------------------------------------
(* Claims on the ingest service and its tasks (Spec) *)

ChildFlagged(ev) == ev.partial_keys.isChild \/ ev.partial_keys.deviceChildFlag

\* what the KV store and the graph hold about one ephem_id
RelsOf(ephem_id) == {r \in DOMAIN rels : r.from = ephem_id \/ r.to = ephem_id}
InMembership(ephem_id) ==
    \E h \in DOMAIN membership :
        \E k \in 1..Len(membership[h]) : membership[h][k] = ephem_id
InEdgeBook(ephem_id) ==
    \E h \in DOMAIN edgeBook :
        \E a \in EphemIds \cup {EphemC} :
            sorted_key(ephem_id, a) \in DOMAIN edgeBook[h].edges

\* a later event that has consent and no child flag went through
\* advanced_bridging while the event at position i was in the table
BridgedAfter(i) ==
    \E j \in 1..Len(events) :
        /\ j > i
        /\ events[j].consent /\ ~ChildFlagged(events[j])
        /\ events[j].ephem_id # events[i].ephem_id
        /\ Node("Event", events[j].ephem_id) \in nodes

\* C1: an event carrying isChild or deviceChildFlag has no FROM_DEVICE,
\* USED_BY or MEMBER_OF relationship on its ephem_id, whether it was the new
\* event or the other event of a pair
C1_ChildNeverLinked ==
    \A i \in 1..Len(events) :
        ChildFlagged(events[i]) => RelsOf(events[i].ephem_id) = {}

C1_Witness ==
    \E i \in 1..Len(events) :
        /\ events[i].partial_keys.isChild
        /\ events[i].consent
        /\ BridgedAfter(i)

\* C2: an event whose consent row has cross_device_bridging = false is never
\* linked: no relationship, HouseholdRef, Membership or EdgeBook entry holds
\* its ephem_id
C2_NoConsentNeverLinked ==
    \A i \in 1..Len(events) :
        ~events[i].consent =>
            /\ RelsOf(events[i].ephem_id) = {}
            /\ events[i].ephem_id \notin DOMAIN householdRef
            /\ ~InMembership(events[i].ephem_id)
            /\ ~InEdgeBook(events[i].ephem_id)

C2_Witness ==
    \E i \in 1..Len(events) :
        /\ ~events[i].consent
        /\ ~ChildFlagged(events[i])
        /\ BridgedAfter(i)

\* an ingest request was handled in this step; the new row is the last one
IngestStep == Len(events') = Len(events) + 1
NewRow == events'[Len(events')]

RECURSIVE SumFn(_)
SumFn(f) ==
    IF DOMAIN f = {} THEN 0
    ELSE LET k == CHOOSE x \in DOMAIN f : TRUE
         IN  f[k] + SumFn([x \in DOMAIN f \ {k} |-> f[x]])

\* all increments buffered for the day
DailyTotal == IF Today \in DOMAIN dailyAgg THEN SumFn(dailyAgg[Today]) ELSE 0

\* C3: an ingest that answers 200 for an event the privacy gate denies
\* (final_cross_device false) sends no task, carries a bridging_skip_reason
\* and leaves the event row
C3_GateDeniedSuppressesChain ==
    [][(/\ IngestStep
        /\ resp'.status = 200
        /\ ~final_cross_device(resp'.cross_device_bridging, resp'.tcf, resp'.usp))
       => /\ celery' = celery
          /\ fuzzyQueue' = fuzzyQueue
          /\ resp'.bridging_skip_reason # "none"
          /\ NewRow.id = resp'.event_id]_vars

\* C5: an ingest with us_privacy_string "1YYY" and cross_device_bridging
\* true (no child flag) is denied by the gate and answered like the
\* no-consent case: NO_CONSENT_OR_FLAGS, no task, no HouseholdRef or
\* Membership write
C5_Usp1YYYDenied ==
    [][(/\ IngestStep
        /\ resp'.status = 200
        /\ resp'.usp = Usp1YYY
        /\ resp'.cross_device_bridging
        /\ ~ChildFlagged(NewRow))
       => /\ ~final_cross_device(resp'.cross_device_bridging, resp'.tcf, resp'.usp)
          /\ resp'.bridging_skip_reason = "NO_CONSENT_OR_FLAGS"
          /\ celery' = celery
          /\ householdRef' = householdRef
          /\ membership' = membership]_vars

\* C6: an ingest of an event with isChild or deviceChildFlag answers 200
\* with bridging_skip_reason CHILD_FLAG and no bridging_token, writes no
\* Membership and no EdgeBook entry, and leaves the event row
C6_ChildIngest ==
    [][(IngestStep /\ ChildFlagged(NewRow))
       => /\ resp'.status = 200
          /\ resp'.bridging_skip_reason = "CHILD_FLAG"
          /\ resp'.bridging_token = None
          /\ membership' = membership
          /\ edgeBook' = edgeBook
          /\ NewRow.id = resp'.event_id]_vars

\* C7: an ingest of an event with cross_device_bridging false answers 200
\* with bridging_skip_reason NO_CONSENT_OR_FLAGS and no bridging_token,
\* writes no HouseholdRef and no Membership, and increments the daily
\* aggregate exactly once
C7_NoConsentIngest ==
    [][(IngestStep /\ ~NewRow.consent)
       => /\ resp'.status = 200
          /\ resp'.bridging_skip_reason = "NO_CONSENT_OR_FLAGS"
          /\ resp'.bridging_token = None
          /\ householdRef' = householdRef
          /\ membership' = membership
          /\ DailyTotal' = DailyTotal + 1]_vars

-----------------------------------------------------------------------------
(* PrivacyGate on its own (SpecGate): one evaluation of step 3 of           *)
(* ingest_event for every combination of consent flag and signals           *)

\* a TCF string iab_tcf.decode rejects
TcfUndecodable == [present |-> TRUE, decodes |-> FALSE, vendors |-> {}, purposes |-> {}]

GateVendors == {DEFAULT_VENDOR_ID, 7}
GatePurposes == {1, 2, 3}

GateTcfs ==
    {TcfAbsent, TcfUndecodable} \cup
    { [present |-> TRUE, decodes |-> TRUE, vendors |-> v, purposes |-> p] :
        v \in SUBSET GateVendors, p \in SUBSET GatePurposes }

GateUsps ==
    { None, EmptyStr, Usp1YYY, Usp1CYN,
      <<"1", "C", "N", "N">>, <<"1", "N", "Y", "N">>, <<"1", "C", "Y">>,
      <<"1", "C", "Y", "N", "X">> }

GateInputs ==
    [cross_device_bridging : BOOLEAN, tcf : GateTcfs, usp : GateUsps]

InitGate ==
    /\ InitSystem /\ InitStore /\ InitTables /\ InitNoFlight /\ InitKVOff
    /\ gateIn \in GateInputs
    /\ gateOut = "pending"

\* ingest_event, step 3
EvalGate ==
    /\ gateOut = "pending"
    /\ gateOut' = IF final_cross_device(gateIn.cross_device_bridging,
                                         gateIn.tcf, gateIn.usp)
                   THEN "allowed" ELSE "denied"
    /\ UNCHANGED <<events, consentRows, anonRows, celery, fuzzyQueue, emailIndex,
                   dailyAgg, nodes, rels, householdRef, membership, edgeBook,
                   resp, gateIn, dailyRows, capRows, flight, inserted, lastCall>>

NextGate == EvalGate

SpecGate == InitGate /\ [][NextGate]_vars

\* the signals as the claim reads them
TcfValid(tcf) == tcf.present /\ tcf.decodes
UsRegion(usp) == IF Truthy(usp) /\ Len(usp) >= 4 THEN <<usp[2]>> ELSE None
UsOptOutSale(usp) == IF Truthy(usp) /\ Len(usp) >= 4 THEN <<usp[3]>> ELSE None

\* C4: the gate result is cross_device_bridging AND (the TCF string is not a
\* valid one OR (vendor 333 is allowed AND purposes 1 and 2 are both allowed))
\* AND NOT (US privacy region is 'C' AND opt_out_sale is 'Y')
C4_GateFormula ==
    gateOut \in {"allowed", "denied"} =>
        ((gateOut = "allowed") <=>
            /\ gateIn.cross_device_bridging
            /\ \/ ~TcfValid(gateIn.tcf)
               \/ /\ 333 \in gateIn.tcf.vendors
                  /\ 1 \in gateIn.tcf.purposes
                  /\ 2 \in gateIn.tcf.purposes
            /\ ~(UsRegion(gateIn.usp) = <<"C">> /\ UsOptOutSale(gateIn.usp) = <<"Y">>))

\* the gate was evaluated on a valid TCF string that allows the vendor and
\* purpose 1 but not purpose 2, with consent and no US opt-out, and denied
C4_Witness ==
    /\ gateOut = "denied"
    /\ gateIn.cross_device_bridging
    /\ TcfValid(gateIn.tcf)
    /\ 333 \in gateIn.tcf.vendors
    /\ gateIn.tcf.purposes = {1}
    /\ gateIn.usp = None

-----------------------------------------------------------------------------
(* KVCache edge book on its own (SpecKV): any sequence of                   *)
(* add_household_edge calls                                                 *)

KvHouseholds == {<<"H1">>, <<"H2">>}
KvScores == {700, 1000}

InitKV ==
    /\ InitSystem /\ InitStore /\ InitTables /\ InitNoFlight /\ InitGateOff
    /\ inserted = [h \in KvHouseholds |-> {}]
    /\ lastCall = [household_id |-> <<>>, ephem_a |-> <<>>, ephem_b |-> <<>>,
                   score |-> 0]

\* one call add_household_edge(household_id, ephem_a, ephem_b, score)
AddEdge ==
    \E household_id \in KvHouseholds, ephem_a \in EphemIds, ephem_b \in EphemIds,
       score \in KvScores :
        /\ edgeBook' = add_household_edge(edgeBook, household_id, ephem_a,
                                          ephem_b, score)
        /\ inserted' = [inserted EXCEPT ![household_id] = @ \cup {<<ephem_a, ephem_b>>}]
        /\ lastCall' = [household_id |-> household_id, ephem_a |-> ephem_a,
                        ephem_b |-> ephem_b, score |-> score]
        /\ UNCHANGED <<events, consentRows, anonRows, celery, fuzzyQueue,
                       emailIndex, dailyAgg, nodes, rels, householdRef,
                       membership, resp, gateIn, dailyRows, capRows, flight, gateOut>>

NextKV == AddEdge

SpecKV == InitKV /\ [][NextKV]_vars

\* C9: after any sequence of AddEdge calls, repeated pairs included, every
\* edge-book record has sum_score equal to the sum of its edges' scores and
\* count_score equal to the number of its edges
C9_EdgeBookSums ==
    \A h \in DOMAIN edgeBook :
        /\ edgeBook[h].sum_score = SumFn(edgeBook[h].edges)
        /\ edgeBook[h].count_score = Cardinality(DOMAIN edgeBook[h].edges)

\* a household holds two edges and was called for one pair in both orders
C9_Witness ==
    \E h \in DOMAIN edgeBook :
        /\ Cardinality(DOMAIN edgeBook[h].edges) >= 2
        /\ {<<EphemA, EphemB>>, <<EphemB, EphemA>>} \subseteq inserted[h]

\* the pair of the call was passed before for this household, in either order
PairPresent(call) ==
    \/ <<call.ephem_a, call.ephem_b>> \in inserted[call.household_id]
    \/ <<call.ephem_b, call.ephem_a>> \in inserted[call.household_id]

AvgOfEdges(h) ==
    IF h \in DOMAIN edgeBook /\ DOMAIN edgeBook[h].edges # {}
    THEN SumFn(edgeBook[h].edges) \div Cardinality(DOMAIN edgeBook[h].edges)
    ELSE 0

\* C10: AddEdge for a pair already present, in either argument order and
\* with any score, leaves the household's record and its average unchanged;
\* the average is the sum of the edges' scores over their number, and 0 for
\* a household without edges
C10_AddEdgeIdempotent ==
    /\ [](\A h \in KvHouseholds :
            get_household_average_score(edgeBook, h) = AvgOfEdges(h))
    /\ [][PairPresent(lastCall')
            => /\ edgeBook' = edgeBook
               /\ get_household_average_score(edgeBook', lastCall'.household_id)
                    = get_household_average_score(edgeBook, lastCall'.household_id)]_vars

\* the last call passed (B, A) with a score other than the one stored by an
\* earlier call with (A, B)
C10_Witness ==
    /\ lastCall.ephem_a = EphemB /\ lastCall.ephem_b = EphemA
    /\ <<EphemA, EphemB>> \in inserted[lastCall.household_id]
    /\ lastCall.household_id \in DOMAIN edgeBook
    /\ edgeBook[lastCall.household_id].edges[sorted_key(EphemA, EphemB)]
         # lastCall.score

-----------------------------------------------------------------------------
(* The pair step of advanced_bridging on its own (SpecPair): the loop body  *)
(* from compute_confidence on (bridging_graph.py lines 140-214), applied in *)
(* any order to pairs of rows of ephemeral_events that hold wifiSSID        *)

Email2 == <<"h", "2">>

PairRow(id, ephem_id, email, wifi) ==
    [id |-> id, ephem_id |-> ephem_id,
     partial_keys |-> [hashedEmail |-> email, hashedIP |-> Ip1,
                       deviceType |-> Mobile, isChild |-> FALSE,
                       deviceChildFlag |-> FALSE, wifiSSID |-> wifi,
                       profileID |-> Absent],
     consent |-> TRUE, event_type |-> "impression", partner_id |-> 1,
     timestamp |-> 0]

PairRows ==
    << PairRow(1, EphemA, Email1, <<"W", "1">>),
       PairRow(2, EphemB, Email1, Wifi1),
       PairRow(3, EphemC, Email2, Absent),
       PairRow(4, EphemA, Email2, Absent) >>

InitPair ==
    /\ events = PairRows
    /\ consentRows = Len(PairRows)
    /\ anonRows = {}
    /\ celery = {}
    /\ fuzzyQueue = <<>>
    /\ emailIndex = EmptyFn
    /\ dailyAgg = EmptyFn
    /\ resp = NoResponse
    /\ InitStore /\ InitTables /\ InitNoFlight /\ InitGateOff /\ InitKVOff

\* no membership list is longer than the model keeps
MembershipRoom ==
    \A h \in DOMAIN membership : Len(membership[h]) + 2 <= MaxMembers

\* one pass of the loop body for new_event = events[i] and ev = events[j]
BridgePairStep ==
    /\ MembershipRoom
    /\ \E i \in 1..Len(events), j \in 1..Len(events) :
        /\ events[i].id # events[j].id
        /\ SetStore(BridgePair(merge_event_node(Store, events[i]),
                               events[i], events[j]).st)
    /\ UNCHANGED <<events, consentRows, anonRows, celery, fuzzyQueue, emailIndex,
                   dailyAgg, resp, gateIn, dailyRows, capRows, flight, gateOut, inserted, lastCall>>

NextPair == BridgePairStep

SpecPair == InitPair /\ [][NextPair]_vars

-----------------------------------------------------------------------------
(* GraphLinker on its own (SpecGraph): any sequence of link_event_to_device, *)
(* link_device_to_user and link_user_to_household calls                      *)

GraphEvents == {EphemA, EphemB}
GraphDevice == <<"d", "1">>
GraphUser == <<"u", "1">>
GraphHousehold == <<"H1">>
GraphConfs == {300, 700, 1000}

InitGraph ==
    /\ InitSystem /\ InitStore /\ InitTables /\ InitNoFlight /\ InitGateOff
    /\ inserted = EmptyFn
    /\ lastCall = [rel |-> Rel("none", <<>>, <<>>), confidence |-> 0]

\* the call history after a link call on relationship key
Called(key, confidence) ==
    /\ inserted' = [r \in DOMAIN inserted \cup {key} |->
                      (IF r \in DOMAIN inserted THEN inserted[r] ELSE {})
                        \cup (IF r = key THEN {confidence} ELSE {})]
    /\ lastCall' = [rel |-> key, confidence |-> confidence]

GraphFrame ==
    UNCHANGED <<events, consentRows, anonRows, celery, fuzzyQueue, emailIndex,
                dailyAgg, resp, gateIn, dailyRows, capRows, flight, gateOut>>

LinkEventDevice ==
    \E event_id \in GraphEvents, confidence \in GraphConfs :
        /\ SetStore(link_event_to_device(Store, event_id, GraphDevice, confidence))
        /\ Called(Rel("FROM_DEVICE", event_id, GraphDevice), confidence)
        /\ GraphFrame

LinkDeviceUser ==
    \E confidence \in GraphConfs :
        /\ SetStore(link_device_to_user(Store, GraphDevice, GraphUser, confidence))
        /\ Called(Rel("USED_BY", GraphDevice, GraphUser), confidence)
        /\ GraphFrame

LinkUserHousehold ==
    \E confidence \in GraphConfs :
        /\ SetStore(link_user_to_household(Store, GraphUser, GraphHousehold,
                                           confidence))
        /\ Called(Rel("MEMBER_OF", GraphUser, GraphHousehold), confidence)
        /\ GraphFrame

NextGraph ==
    \/ LinkEventDevice
    \/ LinkDeviceUser
    \/ LinkUserHousehold

SpecGraph == InitGraph /\ [][NextGraph]_vars

\* the largest element of a non-empty set of numbers
MaxOf(S) == CHOOSE x \in S : \A y \in S : y <= x

\* C11: the confidence of every relationship is the largest confidence
\* passed to a link call on it so far, and no call decreases it
C11_ConfidenceRunningMax ==
    /\ [](/\ DOMAIN rels = DOMAIN inserted
          /\ \A r \in DOMAIN rels : rels[r] = MaxOf(inserted[r]))
    /\ [][\A r \in DOMAIN rels : rels'[r] >= rels[r]]_vars

\* the last call passed a lower confidence than an earlier call on the same
\* relationship
C11_Witness ==
    /\ lastCall.rel \in DOMAIN rels
    /\ lastCall.confidence < rels[lastCall.rel]
    /\ Cardinality(inserted[lastCall.rel]) >= 2

-----------------------------------------------------------------------------
(* SpecPair, continued: the whole loop of advanced_bridging over rows that   *)
(* all pass the guards                                                       *)

RECURSIVE BridgeOthers(_, _, _, _)
\* for ev in recent_events, from position k on, every other row passing the
\* guards; the store reached (an exception ends the loop)
BridgeOthers(st, new_event, recent_events, k) ==
    IF k > Len(recent_events) THEN st
    ELSE IF recent_events[k].id = new_event.id
         THEN BridgeOthers(st, new_event, recent_events, k + 1)
    ELSE LET r == BridgePair(st, new_event, recent_events[k])
         IN  IF r.raised THEN r.st
             ELSE BridgeOthers(r.st, new_event, recent_events, k + 1)

\* Bridge(ev) on the rows of the table: merge_event_node, then the loop
BridgeAll(st, new_event) ==
    BridgeOthers(merge_event_node(st, new_event), new_event, events, 1)

SameGraph(s, t) == s.nodes = t.nodes /\ s.rels = t.rels

\* C12: bridging an event a second time, the other events being the same,
\* leaves the nodes, the relationships and their confidences as the first
\* time left them; this holds of attempt_bridging as it runs and of the
\* loop taken over every other row
C12_BridgeIdempotent ==
    \A i \in 1..Len(events) :
        /\ SameGraph(attempt_bridging(attempt_bridging(Store, events[i], events).st,
                                      events[i], events).st,
                     attempt_bridging(Store, events[i], events).st)
        /\ SameGraph(BridgeAll(BridgeAll(Store, events[i]), events[i]),
                     BridgeAll(Store, events[i]))

\* the store is what bridging row 1 over every other row leaves, with
\* relationships on its ephem_id: bridging it now is a second invocation
C12_Witness ==
    /\ RelsOf(events[1].ephem_id) # {}
    /\ SameGraph(BridgeAll(Store, events[1]), Store)

-----------------------------------------------------------------------------
(* The fuzzy queue on its own (SpecQueue): enqueue_fuzzy_event and           *)
(* pop_fuzzy_batch called one at a time                                      *)

QueueIds == {1, 2, 3}

\* inserted: the ids enqueued since the last pop, in call order
InitQueue ==
    /\ InitSystem /\ InitStore /\ InitTables /\ InitNoFlight /\ InitGateOff
    /\ inserted = <<>>
    /\ lastCall = [op |-> "none", returned |-> <<>>]

QueueFrame ==
    UNCHANGED <<events, consentRows, anonRows, celery, emailIndex, dailyAgg,
                nodes, rels, householdRef, membership, edgeBook, resp,
                gateIn, dailyRows, capRows, flight, gateOut>>

EnqueueFuzzy ==
    /\ Len(fuzzyQueue) < MaxQueue
    /\ \E event_id \in QueueIds :
        /\ fuzzyQueue' = enqueue_fuzzy_event(fuzzyQueue, event_id)
        /\ inserted' = Append(inserted, IdStr(event_id))
        /\ lastCall' = [op |-> "enqueue", returned |-> <<>>]
    /\ QueueFrame

PopFuzzy ==
    /\ fuzzyQueue' = pop_fuzzy_batch(fuzzyQueue).queue
    /\ inserted' = <<>>
    /\ lastCall' = [op |-> "pop", returned |-> pop_fuzzy_batch(fuzzyQueue).batch]
    /\ QueueFrame

NextQueue == EnqueueFuzzy \/ PopFuzzy

SpecQueue == InitQueue /\ [][NextQueue]_vars

\* C13: a pop returns the ids enqueued since the previous pop, in enqueue
\* order (so an id enqueued just before is in it, and a pop that follows a
\* pop with no enqueue in between returns the empty sequence)
C13_PopReturnsEnqueued ==
    /\ [](lastCall.op = "pop" /\ inserted = <<>> => fuzzyQueue = <<>>)
    /\ [][inserted' = <<>> /\ lastCall'.op = "pop"
            => lastCall'.returned = inserted]_vars

\* a pop returned two different ids
C13_Witness ==
    /\ lastCall.op = "pop"
    /\ Len(lastCall.returned) >= 2
    /\ lastCall.returned[1] # lastCall.returned[2]

-----------------------------------------------------------------------------
(* DailyAggBuffer on its own, calls taken one at a time (SpecDaily):         *)
(* buffer_increment_daily_aggregate and flush_daily_aggregate                *)

Tomorrow == <<"2025-01-02">>
DailyDates == {Today, Tomorrow}
DailyFields == {FieldKey(1, Mobile, "impression"), FieldKey(1, Mobile, "click")}
DailyKeys == DailyDates \X DailyFields

\* apply_differential_privacy adds Laplace noise to every count it is given;
\* the column is an integer, so the noise is modelled in whole counts
NoiseValues == {-1, 0, 1}
apply_differential_privacy(count, noise) == Max(0, count + noise)

\* _process_daily_aggregate_batch for every record of the scan: one upsert
\* per field key, ON CONFLICT ... DO UPDATE SET count = :count
FlushRows(rows, agg, noise) ==
    LET flushed == {k \in DailyKeys : k[1] \in DOMAIN agg /\ k[2] \in DOMAIN agg[k[1]]}
    IN  [k \in DOMAIN rows \cup flushed |->
            IF k \in flushed
            THEN apply_differential_privacy(agg[k[1]][k[2]], noise[k])
            ELSE rows[k]]

\* inserted: per key, the number of Increment calls made
InitDailyCalls ==
    /\ inserted = [k \in DailyKeys |-> 0]
    /\ lastCall = [op |-> "none"]

InitDaily ==
    /\ InitSystem /\ InitStore /\ InitTables /\ InitNoFlight /\ InitGateOff
    /\ InitDailyCalls

DailyFrame ==
    UNCHANGED <<events, consentRows, anonRows, celery, fuzzyQueue, emailIndex,
                nodes, rels, householdRef, membership, edgeBook, resp,
                gateIn, gateOut, capRows>>

CallsMade == SumFn(inserted)

\* one call of buffer_increment_daily_aggregate, from lock to release
Increment ==
    /\ CallsMade < MaxIncrements
    /\ \E k \in DailyKeys :
        /\ dailyAgg' = IncDaily(dailyAgg, k[1], k[2])
        /\ inserted' = [inserted EXCEPT ![k] = @ + 1]
    /\ lastCall' = [op |-> "increment"]
    /\ UNCHANGED <<dailyRows, flight>>
    /\ DailyFrame

\* one call of flush_daily_aggregate: every record of dailyAggSet is handed
\* to flush_fn and removed
Flush ==
    /\ \E noise \in [DailyKeys -> NoiseValues] :
        dailyRows' = FlushRows(dailyRows, dailyAgg, noise)
    /\ dailyAgg' = EmptyFn
    /\ lastCall' = [op |-> "flush"]
    /\ UNCHANGED <<inserted, flight>>
    /\ DailyFrame

NextDaily == Increment \/ Flush

SpecDaily == InitDaily /\ [][NextDaily]_vars

\* C14: a flush into an empty table leaves, for each key, a row whose count
\* is the number of Increment calls made for that key, no other row, and an
\* empty buffer
C14_FlushCountsIncrements ==
    [][(lastCall'.op = "flush" /\ dailyRows = EmptyFn)
       => /\ DOMAIN dailyRows' = {k \in DailyKeys : inserted[k] > 0}
          /\ \A k \in DOMAIN dailyRows' : dailyRows'[k] = inserted[k]
          /\ dailyAgg' = EmptyFn]_vars

\* ---------------------------------------------------------------------
\* Daily aggregate buffer, increments from several processes.
\* AerospikeCache._lock is an asyncio.Lock held by the class object of one
\* Python process: the calls of one process run one after the other, the
\* calls of different processes interleave at the get and at the put.
Procs == {1, 2}

\* the record client.get returned: None when the record is not found
ReadRecord(agg, date_str) ==
    IF date_str \in DOMAIN agg
    THEN [found |-> TRUE, counts |-> agg[date_str]]
    ELSE [found |-> FALSE, counts |-> EmptyFn]

\* the bins the call puts, from the record it read
PutCounts(record, field_key) ==
    IF ~record.found
    THEN [f \in {field_key} |-> 1]
    ELSE [f \in DOMAIN record.counts \cup {field_key} |->
            IF f = field_key
            THEN (IF f \in DOMAIN record.counts THEN record.counts[f] ELSE 0) + 1
            ELSE record.counts[f]]

\* client.put of the whole counts bin
PutRecord(agg, date_str, counts) ==
    [d \in DOMAIN agg \cup {date_str} |-> IF d = date_str THEN counts ELSE agg[d]]

\* inserted: per key, the number of Increment calls that have returned
InitDailyConc ==
    /\ InitSystem /\ InitStore /\ InitTables /\ InitNoFlight /\ InitGateOff
    /\ inserted = [k \in DailyKeys |-> 0]
    /\ lastCall = [op |-> "none"]

CallsStarted == CallsMade + Cardinality(DOMAIN flight)

\* process p takes its lock and reads the record of the date
IncrementGet(p) ==
    /\ p \notin DOMAIN flight
    /\ CallsStarted < MaxIncrements
    /\ \E k \in DailyKeys :
        flight' = [q \in DOMAIN flight \cup {p} |->
                      IF q = p
                      THEN [date_str |-> k[1], field_key |-> k[2],
                            record |-> ReadRecord(dailyAgg, k[1])]
                      ELSE flight[q]]
    /\ lastCall' = [op |-> "get"]
    /\ UNCHANGED <<dailyAgg, inserted, dailyRows>>
    /\ DailyFrame

\* process p puts the counts it computed, releases its lock and returns
IncrementPut(p) ==
    /\ p \in DOMAIN flight
    /\ LET c == flight[p]
       IN  /\ dailyAgg' = PutRecord(dailyAgg, c.date_str,
                                    PutCounts(c.record, c.field_key))
           /\ inserted' = [inserted EXCEPT ![<<c.date_str, c.field_key>>] = @ + 1]
    /\ flight' = [q \in DOMAIN flight \ {p} |-> flight[q]]
    /\ lastCall' = [op |-> "put"]
    /\ UNCHANGED dailyRows
    /\ DailyFrame

NextDailyConc == \E p \in Procs : IncrementGet(p) \/ IncrementPut(p)

SpecDailyConc == InitDailyConc /\ [][NextDailyConc]_vars

Buffered(k) ==
    IF k[1] \in DOMAIN dailyAgg /\ k[2] \in DOMAIN dailyAgg[k[1]]
    THEN dailyAgg[k[1]][k[2]] ELSE 0

\* C15: once every Increment call has returned, each field key of each date
\* holds the number of Increment calls made for it, so the counts of a date
\* sum to the number of calls on that date
C15_NoLostUpdate ==
    (flight = EmptyFn) => \A k \in DailyKeys : Buffered(k) = inserted[k]

\* ---------------------------------------------------------------------
\* RealTimeCappingManager over the frequency_capping table.
\* capRows: household_id -> the row the query's first() returns
MaxCapCalls == 7

DEFAULT_CAP_LIMIT == 5

CapHouseholds == {<<"hhA">>, <<"hhB">>}

NewCapRow == [daily_impressions |-> 0, cap_limit |-> DEFAULT_CAP_LIMIT]

CapResult(op, household_id, fc, can_serve) ==
    [op |-> op, household_id |-> household_id,
     daily_impressions |-> fc.daily_impressions,
     cap_limit |-> fc.cap_limit, can_serve |-> can_serve]

PutCapRow(rows, household_id, fc) ==
    [h \in DOMAIN rows \cup {household_id} |->
        IF h = household_id THEN fc ELSE rows[h]]

\* check_cap with the comparison of increment_impression
check_capInclusive(rows, household_id) ==
    LET fc == IF household_id \in DOMAIN rows THEN rows[household_id] ELSE NewCapRow
    IN  [rows |-> PutCapRow(rows, household_id, fc),
         result |-> CapResult("check", household_id, fc,
                              fc.daily_impressions <= fc.cap_limit)]

check_cap(rows, household_id) ==
    LET fc == IF household_id \in DOMAIN rows THEN rows[household_id] ELSE NewCapRow
    IN  [rows |-> PutCapRow(rows, household_id, fc),
         result |-> CapResult("check", household_id, fc,
                              fc.daily_impressions < fc.cap_limit)]

\* a missing row is added with daily_impressions=0 and is not incremented
increment_impression(rows, household_id) ==
    LET fc == IF household_id \in DOMAIN rows
              THEN [rows[household_id] EXCEPT !.daily_impressions = @ + 1]
              ELSE NewCapRow
    IN  [rows |-> PutCapRow(rows, household_id, fc),
         result |-> CapResult("increment", household_id, fc,
                              fc.daily_impressions <= fc.cap_limit)]

\* inserted: per household, the number of increment_impression calls made and
\* whether check_cap was called before the first of them
InitCap ==
    /\ InitSystem /\ InitStore /\ InitTables /\ InitNoFlight /\ InitGateOff
    /\ inserted = [h \in CapHouseholds |-> [increments |-> 0, checkedFirst |-> FALSE]]
    /\ lastCall = [op |-> "none"]

CapFrame ==
    UNCHANGED <<events, consentRows, anonRows, celery, fuzzyQueue, emailIndex,
                dailyAgg, nodes, rels, householdRef, membership, edgeBook, resp,
                gateIn, gateOut, dailyRows, flight>>

\* POST /v1/capping/check
CheckCap(h) ==
    /\ LET r == check_cap(capRows, h)
       IN  /\ capRows' = r.rows
           /\ lastCall' = r.result
    /\ inserted' = [inserted EXCEPT ![h].checkedFirst =
                        @ \/ inserted[h].increments = 0]
    /\ CapFrame

\* POST /v1/capping/increment
IncrementImpression(h) ==
    /\ inserted[h].increments < MaxCapCalls
    /\ LET r == increment_impression(capRows, h)
       IN  /\ capRows' = r.rows
           /\ lastCall' = r.result
    /\ inserted' = [inserted EXCEPT ![h].increments = @ + 1]
    /\ CapFrame

NextCap == \E h \in CapHouseholds : CheckCap(h) \/ IncrementImpression(h)

SpecCap == InitCap /\ [][NextCap]_vars

\* C16: for a household whose row was not there before its first Increment,
\* the k-th Increment returns daily_impressions = k, and can_serve is true
\* for k up to cap_limit = 5 and false from the sixth on
C16_KthIncrementReturnsK ==
    (/\ lastCall.op = "increment"
     /\ ~inserted[lastCall.household_id].checkedFirst)
    => LET k == inserted[lastCall.household_id].increments
       IN  /\ lastCall.daily_impressions = k
           /\ lastCall.can_serve = (k <= DEFAULT_CAP_LIMIT)

\* C17: a Check returns the stored daily_impressions and cap_limit of the
\* household with can_serve = (daily_impressions < cap_limit); when the
\* household had no row it creates one with 0 and 5 and returns can_serve
\* true; it changes no existing row
C17_CheckReadsOrCreates ==
    [][(lastCall'.op = "check")
       => LET h == lastCall'.household_id
          IN  /\ DOMAIN capRows' = DOMAIN capRows \cup {h}
              /\ \A g \in DOMAIN capRows : capRows'[g] = capRows[g]
              /\ lastCall'.daily_impressions = capRows'[h].daily_impressions
              /\ lastCall'.cap_limit = capRows'[h].cap_limit
              /\ lastCall'.can_serve =
                    (capRows'[h].daily_impressions < capRows'[h].cap_limit)
              /\ (h \notin DOMAIN capRows)
                    => /\ capRows'[h] = [daily_impressions |-> 0, cap_limit |-> 5]
                       /\ lastCall'.can_serve]_vars

C17_Witness ==
    /\ lastCall.op = "check"
    /\ lastCall.daily_impressions = lastCall.cap_limit
    /\ ~lastCall.can_serve

\* ---------------------------------------------------------------------
\* The scorer on its own: one call of compute_confidence per behaviour.
\* lastCall: the arguments of the call and what it returned
Email1Upper == <<"H", "1">>
Ip2 == <<"i", "p", "2">>

ScoreEmails == {None, Absent, EmptyStr, Email1, Email1Upper, Email2}
ScoreIps == {None, Ip1, Ip2}
ScoreWifis == {Absent, Wifi1}

\* partial_keys JSON of an ephemeral_events row
ScorePks ==
    { [hashedEmail |-> e, deviceType |-> Mobile, isChild |-> FALSE,
       deviceChildFlag |-> FALSE, hashedIP |-> i, wifiSSID |-> w,
       profileID |-> Absent] :
      e \in ScoreEmails, i \in ScoreIps, w \in ScoreWifis }

\* timestamps in whole days
ScoreTimes == {0, 1}

\* bridging_config.partial_key_weights: none (the defaults) or a configured row
ConfiguredWeights ==
    [hashedEmail |-> 500, hashedIP |-> 500, wifiSSID |-> 500,
     deviceType |-> 500, profileID |-> 500]

ScoreWeights == {DEFAULT_PARTIAL_KEY_WEIGHTS, ConfiguredWeights}

InitScore ==
    /\ InitSystem /\ InitStore /\ InitTables /\ InitNoFlight /\ InitGateOff
    /\ inserted = EmptyFn
    /\ lastCall = [op |-> "none"]

Score ==
    /\ lastCall.op = "none"
    /\ \E pk_a \in ScorePks, pk_b \in ScorePks, t_a \in ScoreTimes,
          t_b \in ScoreTimes, w \in ScoreWeights :
        lastCall' = [op |-> "score", pk_a |-> pk_a, pk_b |-> pk_b,
                     t_a |-> t_a, t_b |-> t_b, weights |-> w,
                     decay |-> time_decay_factor,
                     result |-> compute_confidence(pk_a, pk_b, t_a, t_b, w,
                                                   time_decay_factor)]
    /\ UNCHANGED <<events, consentRows, anonRows, celery, fuzzyQueue, emailIndex,
                   dailyAgg, nodes, rels, householdRef, membership, edgeBook,
                   resp, gateIn, gateOut, inserted, dailyRows, capRows, flight>>

NextScore == Score

SpecScore == InitScore /\ [][NextScore]_vars

EmailsMatch(pk_a, pk_b) ==
    /\ Truthy(Get(pk_a, "hashedEmail"))
    /\ Truthy(Get(pk_b, "hashedEmail"))
    /\ Lower(pk_a.hashedEmail) = Lower(pk_b.hashedEmail)

\* C18: when both hashedEmail values are non-empty and equal ignoring case
\* the scorer returns exactly 1.0, whatever the other arguments
C18_EqualEmailScoresOne ==
    (lastCall.op = "score" /\ EmailsMatch(lastCall.pk_a, lastCall.pk_b))
    => lastCall.result = [raised |-> FALSE, score |-> ScoreOne]

C18_Witness ==
    /\ lastCall.op = "score"
    /\ lastCall.pk_a.hashedEmail = Email1
    /\ lastCall.pk_b.hashedEmail = Email1Upper
    /\ lastCall.pk_a.hashedIP = None
    /\ lastCall.t_a # lastCall.t_b
    /\ lastCall.weights = ConfiguredWeights
    /\ lastCall.result.score = ScoreOne

\* C19: the scorer gives the same outcome when the two events change places
C19_ScoreSymmetric ==
    (lastCall.op = "score")
    => lastCall.result =
          compute_confidence(lastCall.pk_b, lastCall.pk_a, lastCall.t_b,
                             lastCall.t_a, lastCall.weights, lastCall.decay)

C19_Witness ==
    /\ lastCall.op = "score"
    /\ lastCall.pk_a.hashedIP = Ip1
    /\ lastCall.pk_b.hashedIP = Ip2
    /\ lastCall.t_a # lastCall.t_b
    /\ ~lastCall.result.raised
    /\ lastCall.result.score > 0
    /\ lastCall.result.score < ScoreOne

StoredAtIngest(pk) == pk.hashedEmail # Absent /\ pk.wifiSSID = Absent

\* C20: for partial keys as the ingest stores them the scorer returns a
\* score between 0 and 1, a null or empty value counting for nothing
C20_ScoreInUnitRange ==
    (/\ lastCall.op = "score"
     /\ StoredAtIngest(lastCall.pk_a)
     /\ StoredAtIngest(lastCall.pk_b))
    => /\ ~lastCall.result.raised
       /\ lastCall.result.score >= 0
       /\ lastCall.result.score <= ScoreOne

-----------------------------------------------------------------------------
(* Further claims on the ingest service and its tasks (Spec) *)

Allowed(ev) == ev.consent /\ ~ChildFlagged(ev)

HasEmail(ev) == Truthy(Get(ev.partial_keys, "hashedEmail"))

FuzzyTaskOf(ev) == Task("queue_fuzzy_bridging", ev.id, None)

DeterministicTaskOf(ev) ==
    Task("short_circuit_deterministic", ev.id, ev.partial_keys.hashedEmail)

\* C21: an ingest of an allowed event (consent, no child flag) takes one
\* path: with a non-empty hashedEmail the deterministic task is sent and the
\* event is not sent to the fuzzy queue; without one the event is sent to
\* the fuzzy queue
C21_OnePathPerEvent ==
    [][(IngestStep /\ Allowed(NewRow))
       => IF HasEmail(NewRow)
          THEN /\ DeterministicTaskOf(NewRow) \in celery'
               /\ FuzzyTaskOf(NewRow) \notin celery'
          ELSE FuzzyTaskOf(NewRow) \in celery']_vars

\* the deterministic task of the event at position i has run to its end
DeterministicDone(i) ==
    /\ Allowed(events[i]) /\ HasEmail(events[i])
    /\ DeterministicTaskOf(events[i]) \notin celery

InIndex(email, event_id) ==
    /\ email \in DOMAIN emailIndex
    /\ \E k \in 1..Len(emailIndex[email]) : emailIndex[email][k] = IdStr(event_id)

\* C22: once the deterministic task of an event has completed, the event id
\* is in EmailIndex[email]; after two events with the same hashedEmail, ingested
\* and processed in that order, the index is [ev1.id, ev2.id]
C22_EmailIndexAppended ==
    \A i \in 1..Len(events) :
        DeterministicDone(i) =>
            /\ InIndex(events[i].partial_keys.hashedEmail, i)
            /\ (i = 2 /\ DeterministicDone(1)
                /\ events[1].partial_keys.hashedEmail = events[2].partial_keys.hashedEmail)
               => emailIndex[events[i].partial_keys.hashedEmail] = <<IdStr(1), IdStr(2)>>

\* C23: with ev1 (ephem_id A, hashedEmail h1, no wifiSSID) and ev2 (ephem_id
\* B, hashedEmail h1, wifiSSID sent), both with consent and both deterministic
\* tasks completed, HouseholdRef(A) and HouseholdRef(B) are defined and equal
C23_SharedEmailSameHousehold ==
    (/\ Len(events) = 2
     /\ DeterministicDone(1) /\ DeterministicDone(2)
     /\ events[1].ephem_id = EphemA /\ events[2].ephem_id = EphemB
     /\ events[1].partial_keys.hashedEmail = events[2].partial_keys.hashedEmail)
    => /\ EphemA \in DOMAIN householdRef
       /\ EphemB \in DOMAIN householdRef
       /\ householdRef[EphemA] = householdRef[EphemB]

-----------------------------------------------------------------------------
(* Household derivation of one pair (SpecPair) *)

\* the store after the loop body for new_event = events[i] and ev = events[j]
PairStore(i, j) ==
    BridgePair(merge_event_node(Store, events[i]), events[i], events[j]).st

PairScore(i, j) ==
    compute_confidence(events[i].partial_keys, events[j].partial_keys,
                       events[i].timestamp, events[j].timestamp,
                       get_partial_key_weights, time_decay_factor)

SharedWifi(a, b) ==
    /\ Truthy(Get(a.partial_keys, "wifiSSID"))
    /\ Truthy(Get(b.partial_keys, "wifiSSID"))
    /\ Lower(a.partial_keys.wifiSSID) = Lower(b.partial_keys.wifiSSID)

IdsOf(st, label) == {n.id : n \in {m \in st.nodes : m.label = label}}

\* household_id is the solo household of a user the ephem_id leads to
SoloHouseholdOf(st, ephem_id, household_id) ==
    \E d \in IdsOf(st, "Device"), u \in IdsOf(st, "User") :
        /\ Rel("FROM_DEVICE", ephem_id, d) \in DOMAIN st.rels
        /\ Rel("USED_BY", d, u) \in DOMAIN st.rels
        /\ Rel("MEMBER_OF", u, household_id) \in DOMAIN st.rels
        /\ household_id = hash_sha256(u \o <<"soloHouse">>)

MembersBefore(h) == IF h \in DOMAIN membership THEN membership[h] ELSE <<>>

-----------------------------------------------------------------------------
(* Claims on the response of the ingest (Spec) *)

\* C25: an ingest returns a bridging_token only when a HouseholdRef has been
\* published for the ephem_id of its event
C25_TokenOnlyWithHousehold ==
    [][(IngestStep /\ resp'.bridging_token # None)
       => NewRow.ephem_id \in DOMAIN householdRef']_vars

\* C26: once the event row is persisted the ingest answers 200 with the id
\* of the event, whatever happens in bridging, anonymization and
\* daily-aggregate buffering
C26_PersistedMeansSuccess ==
    [][IngestStep => (resp'.status = 200 /\ resp'.event_id = NewRow.id)]_vars

\* C28: an ingest answered 200 for an event without consent carries
\* NO_CONSENT_OR_FLAGS whether or not a child flag is set, and CHILD_FLAG is
\* carried only for events with consent
C28_ConsentBeforeChild ==
    [][(IngestStep /\ resp'.status = 200)
       => /\ ~NewRow.consent => resp'.bridging_skip_reason = "NO_CONSENT_OR_FLAGS"
          /\ resp'.bridging_skip_reason = "CHILD_FLAG" => NewRow.consent]_vars

-----------------------------------------------------------------------------
(* The ingest endpoint with requests it rejects (SpecReject) *)

\* ids of the rows of table partners
KnownPartners == {1}

\* partner_id of a request: 0 fails validate_partner_id (v <= 0), 2 names no
\* row of partners
RejectedPartnerIds == {0, 2}

\* IngestRequest validation, done before ingest_event is entered
SchemaValid(partner_id) == partner_id > 0

\* POST /v1/ingest with a partner_id that is not valid.  A request the
\* schema rejects is answered 422 without entering ingest_event.  Otherwise
\* _create_consent_flags commits its row, the insert of the event violates
\* the foreign key on partners.id and _create_ephemeral_event answers 500
IngestRejected ==
    /\ consentRows - Len(events) < MaxRejected
    /\ \E partner_id \in RejectedPartnerIds, cross_device \in BOOLEAN,
          tcf \in RequestTcf, usp \in RequestUsp :
        /\ partner_id \notin KnownPartners
        /\ consentRows' = IF SchemaValid(partner_id) THEN consentRows + 1
                          ELSE consentRows
        /\ resp' = [NoResponse EXCEPT
                        !.status = IF SchemaValid(partner_id) THEN 500 ELSE 422,
                        !.cross_device_bridging = cross_device,
                        !.tcf = tcf, !.usp = usp]
    /\ UNCHANGED <<events, anonRows, celery, fuzzyQueue, emailIndex, dailyAgg,
                   nodes, rels, householdRef, membership, edgeBook, gateIn,
                   gateOut, inserted, lastCall, dailyRows, capRows, flight>>

NextReject == Ingest \/ IngestRejected

SpecReject == Init /\ [][NextReject]_vars

\* C27: a request that is rejected (no event row comes of it) is answered
\* with a 4xx status and leaves no consent_flags row, no anonymized row, no
\* task or queue entry and no daily-aggregate increment
C27_RejectedLeavesNothing ==
    [][(events' = events /\ <<resp, consentRows>>' # <<resp, consentRows>>)
       => /\ resp'.status \in 400..499
          /\ consentRows' = consentRows
          /\ anonRows' = anonRows
          /\ celery' = celery
          /\ fuzzyQueue' = fuzzyQueue
          /\ dailyAgg' = dailyAgg]_vars

-----------------------------------------------------------------------------
(* Malformed privacy signals (SpecGate) *)

\* a US privacy string that is sent and is not four characters long
UsMalformed(usp) == Truthy(usp) /\ Len(usp) # 4

UsAbsent(usp) == ~Truthy(usp)

\* C29: with the TCF string absent or undecodable and the US privacy string
\* absent or malformed, the gate result equals cross_device_bridging
C29_MalformedCountsAsAbsent ==
    (/\ gateOut \in {"allowed", "denied"}
     /\ ~TcfValid(gateIn.tcf)
     /\ (UsAbsent(gateIn.usp) \/ UsMalformed(gateIn.usp)))
    => ((gateOut = "allowed") <=> gateIn.cross_device_bridging)

-----------------------------------------------------------------------------
(* The fuzzy queue with the drain interleaved with enqueues (SpecQueueConc). *)
(* pop_fuzzy_batch is a client.get followed by a client.remove: two calls    *)
(* on the store, between which the queue_fuzzy_bridging tasks of other       *)
(* workers run.                                                              *)

\* inserted: the event ids enqueued so far; lastCall.returned: the ids the
\* pops have returned so far; flight["drain"]: the batch read by a pop that
\* has not removed the record yet
InitQueueConc ==
    /\ InitSystem /\ InitStore /\ InitTables /\ InitNoFlight /\ InitGateOff
    /\ inserted = {}
    /\ lastCall = [op |-> "none", returned |-> {}]

QueueConcFrame ==
    UNCHANGED <<events, consentRows, anonRows, celery, emailIndex, dailyAgg,
                nodes, rels, householdRef, membership, edgeBook, resp,
                gateIn, dailyRows, capRows, gateOut>>

\* enqueue_fuzzy_event, one list_append
EnqueueFuzzyConc ==
    /\ \E event_id \in (1..MaxQueue) \ inserted :
        /\ fuzzyQueue' = enqueue_fuzzy_event(fuzzyQueue, event_id)
        /\ inserted' = inserted \cup {event_id}
    /\ lastCall' = [lastCall EXCEPT !.op = "enqueue"]
    /\ UNCHANGED flight
    /\ QueueConcFrame

\* pop_fuzzy_batch up to the client.get; without a record it returns []
PopFuzzyGet ==
    /\ "drain" \notin DOMAIN flight
    /\ IF fuzzyQueue = <<>>
       THEN /\ lastCall' = [lastCall EXCEPT !.op = "pop"]
            /\ UNCHANGED flight
       ELSE /\ flight' = [p \in {"drain"} |-> [batch |-> fuzzyQueue]]
            /\ lastCall' = [lastCall EXCEPT !.op = "get"]
    /\ UNCHANGED <<fuzzyQueue, inserted>>
    /\ QueueConcFrame

\* pop_fuzzy_batch from the client.remove on: the record is removed as it is
\* now and the batch read before is returned
PopFuzzyRemove ==
    /\ "drain" \in DOMAIN flight
    /\ fuzzyQueue' = pop_fuzzy_batch(fuzzyQueue).queue
    /\ lastCall' = [op |-> "pop",
                    returned |-> lastCall.returned \cup
                        {flight["drain"].batch[k] : k \in 1..Len(flight["drain"].batch)}]
    /\ flight' = EmptyFn
    /\ UNCHANGED inserted
    /\ QueueConcFrame

NextQueueConc == EnqueueFuzzyConc \/ PopFuzzyGet \/ PopFuzzyRemove

SpecQueueConc == InitQueueConc /\ [][NextQueueConc]_vars

SeqIds(q) == {q[k] : k \in 1..Len(q)}

\* C30: every enqueued id has been returned by a pop, is in the batch a pop
\* in progress is about to return, or is still in the queue
C30_NoIdLostByDrain ==
    \A event_id \in inserted :
        \/ IdStr(event_id) \in lastCall.returned
        \/ IdStr(event_id) \in SeqIds(fuzzyQueue)
        \/ ("drain" \in DOMAIN flight
            /\ IdStr(event_id) \in SeqIds(flight["drain"].batch))

-----------------------------------------------------------------------------
(* Two bridging_fuzzy tasks for one event id (SpecDup): the same id drained *)
(* twice, each task running the loop of advanced_bridging call by call on   *)
(* rows that pass the guards, the store calls of the two interleaving       *)

Call(op, a, b, c, score) == [op |-> op, a |-> a, b |-> b, c |-> c, score |-> score]

\* the store calls of the loop body for one pair at or above the threshold,
\* in the order of the source (rows holding hashedIP, deviceType, hashedEmail)
PairCalls(new_event, ev, score) ==
    LET pa == new_event.partial_keys
        pb == ev.partial_keys
        device_id_a == hash_sha256(Lower(GetOr(pa, "hashedIP") \o GetOr(pa, "deviceType"))
                                   \o <<"device">>)
        device_id_b == hash_sha256(Lower(GetOr(pb, "hashedIP") \o GetOr(pb, "deviceType"))
                                   \o <<"device">>)
        wifi_a == GetOr(pa, "wifiSSID")
        wifi_b == GetOr(pb, "wifiSSID")
        shared == Truthy(wifi_a) /\ Truthy(wifi_b) /\ Lower(wifi_a) = Lower(wifi_b)
        merged_dev == hash_sha256(wifi_a \o <<"mergedDevice">>)
        dev_id_a_final == IF shared THEN merged_dev ELSE device_id_a
        dev_id_b_final == IF shared THEN merged_dev ELSE device_id_b
        prof_a == GetOr(pa, "profileID")
        prof_b == GetOr(pb, "profileID")
        hashedEmailA == Lower(GetOr(pa, "hashedEmail"))
        hashedEmailB == Lower(GetOr(pb, "hashedEmail"))
        sameEmail == hashedEmailA # <<>> /\ hashedEmailA = hashedEmailB
        sameProfile == /\ Truthy(prof_a) /\ Truthy(prof_b)
                       /\ Lower(prof_a) = Lower(prof_b)
        user_a == IF sameEmail THEN hash_sha256(hashedEmailA \o <<"sameUser">>)
                  ELSE IF sameProfile THEN hash_sha256(prof_a \o <<"sameUser">>)
                  ELSE hash_sha256(dev_id_a_final \o prof_a \o hashedEmailA \o <<"user">>)
        user_b == IF sameEmail \/ sameProfile THEN user_a
                  ELSE hash_sha256(dev_id_b_final \o prof_b \o hashedEmailB \o <<"user">>)
        hh_merged == hash_sha256(wifi_a \o <<"household">>)
        hh_a == hash_sha256(user_a \o <<"soloHouse">>)
        hh_b == hash_sha256(user_b \o <<"soloHouse">>)
    IN  << Call("link_event_to_device", new_event.ephem_id, dev_id_a_final, <<>>, score),
           Call("link_event_to_device", ev.ephem_id, dev_id_b_final, <<>>, score),
           Call("link_device_to_user", dev_id_a_final, user_a, <<>>, score),
           Call("link_device_to_user", dev_id_b_final, user_b, <<>>, score) >>
        \o (IF shared
            THEN << Call("link_user_to_household", user_a, hh_merged, <<>>, score),
                    Call("link_user_to_household", user_b, hh_merged, <<>>, score),
                    Call("set_household_ref", new_event.ephem_id, hh_merged, <<>>, score),
                    Call("set_household_ref", ev.ephem_id, hh_merged, <<>>, score),
                    Call("add_ephemeral_to_household", hh_merged, new_event.ephem_id,
                         <<>>, score),
                    Call("add_ephemeral_to_household", hh_merged, ev.ephem_id, <<>>, score),
                    Call("add_household_edge", hh_merged, new_event.ephem_id,
                         ev.ephem_id, score) >>
            ELSE << Call("link_user_to_household", user_a, hh_a, <<>>, score),
                    Call("link_user_to_household", user_b, hh_b, <<>>, score),
                    Call("set_household_ref", new_event.ephem_id, hh_a, <<>>, score),
                    Call("set_household_ref", ev.ephem_id, hh_b, <<>>, score) >>)

RECURSIVE LoopCalls(_, _, _)
\* the store calls of the loop over recent_events from position k on
LoopCalls(new_event, recent_events, k) ==
    IF k > Len(recent_events) THEN <<>>
    ELSE LET ev == recent_events[k]
             c == compute_confidence(new_event.partial_keys, ev.partial_keys,
                                     new_event.timestamp, ev.timestamp,
                                     get_partial_key_weights, time_decay_factor)
         IN  (IF ev.id = new_event.id \/ c.raised \/ c.score < get_bridging_threshold
              THEN <<>>
              ELSE PairCalls(new_event, ev, c.score))
             \o LoopCalls(new_event, recent_events, k + 1)

\* every store call of advanced_bridging(new_event, recent_events)
BridgeCalls(new_event, recent_events) ==
    << Call("merge_event_node", new_event.ephem_id, <<>>, <<>>, 0) >>
    \o LoopCalls(new_event, recent_events, 1)

\* client.get in add_household_edge: the record, or RecordNotFound
ReadEdgeRecord(book, household_id) ==
    IF household_id \in DOMAIN book
    THEN [found |-> TRUE, record |-> book[household_id]]
    ELSE [found |-> FALSE, record |-> NewEdgeRecord(<<>>, 0)]

\* client.put in add_household_edge of the bins computed from what was read
PutEdgeRecord(book, household_id, existing, key, score) ==
    [h \in DOMAIN book \cup {household_id} |->
        IF h = household_id
        THEN (IF existing.found THEN UpdatedEdgeRecord(existing.record, key, score)
              ELSE NewEdgeRecord(key, score))
        ELSE book[h]]

\* one store call other than add_household_edge, which is a get and a put
ApplyCall(st, c) ==
    IF c.op = "merge_event_node"
    THEN [st EXCEPT !.nodes = @ \cup {Node("Event", c.a)}]
    ELSE IF c.op = "link_event_to_device" THEN link_event_to_device(st, c.a, c.b, c.score)
    ELSE IF c.op = "link_device_to_user" THEN link_device_to_user(st, c.a, c.b, c.score)
    ELSE IF c.op = "link_user_to_household"
         THEN link_user_to_household(st, c.a, c.b, c.score)
    ELSE IF c.op = "set_household_ref"
         THEN [st EXCEPT !.ref = set_household_ref(@, c.a, c.b)]
    ELSE IF c.op = "add_ephemeral_to_household"
         THEN [st EXCEPT !.members = add_ephemeral_to_household(@, c.a, c.b)]
    ELSE [st EXCEPT !.book = PutEdgeRecord(@, c.a, ReadEdgeRecord(@, c.a),
                                           sorted_key(c.b, c.c), c.score)]

RECURSIVE ApplyCalls(_, _, _)
ApplyCalls(st, calls, k) ==
    IF k > Len(calls) THEN st ELSE ApplyCalls(ApplyCall(st, calls[k]), calls, k + 1)

EmptyStore ==
    [nodes |-> {}, rels |-> EmptyFn, ref |-> EmptyFn, members |-> EmptyFn,
     book |-> EmptyFn]

Workers == {1, 2}

\* lastCall: the row both tasks bridge and its store calls; inserted: the store they started
\* from, empty or left by the bridging of one row
InitDup ==
    /\ events = PairRows
    /\ consentRows = Len(PairRows)
    /\ anonRows = {}
    /\ celery = {}
    /\ fuzzyQueue = <<>>
    /\ emailIndex = EmptyFn
    /\ dailyAgg = EmptyFn
    /\ resp = NoResponse
    /\ InitTables /\ InitGateOff
    /\ \E s \in {EmptyStore} \cup {ApplyCalls(EmptyStore, BridgeCalls(PairRows[k], PairRows), 1)
                                     : k \in 1..Len(PairRows)} :
        /\ inserted = s
        /\ nodes = s.nodes /\ rels = s.rels /\ householdRef = s.ref
        /\ membership = s.members /\ edgeBook = s.book
    /\ \E i \in 1..Len(PairRows) :
        lastCall = [id |-> i, calls |-> BridgeCalls(PairRows[i], PairRows)]
    /\ flight = [w \in Workers |-> [pc |-> 1, read |-> FALSE,
                                   existing |-> ReadEdgeRecord(EmptyFn, <<>>)]]

DupCalls == lastCall.calls

DupFrame ==
    UNCHANGED <<events, consentRows, anonRows, celery, fuzzyQueue, emailIndex,
                dailyAgg, resp, gateIn, gateOut, dailyRows, capRows, inserted, lastCall>>

\* task w makes its next store call other than the get of add_household_edge
DupCall(w) ==
    /\ flight[w].pc <= Len(DupCalls)
    /\ LET c == DupCalls[flight[w].pc]
       IN  /\ c.op = "add_household_edge" => flight[w].read
           /\ IF c.op = "add_household_edge"
              THEN SetStore([Store EXCEPT !.book =
                               PutEdgeRecord(@, c.a, flight[w].existing,
                                             sorted_key(c.b, c.c), c.score)])
              ELSE SetStore(ApplyCall(Store, c))
    /\ flight' = [flight EXCEPT ![w] = [pc |-> @.pc + 1, read |-> FALSE,
                                      existing |-> ReadEdgeRecord(EmptyFn, <<>>)]]
    /\ DupFrame

\* task w reads the edge record in add_household_edge
DupEdgeGet(w) ==
    /\ flight[w].pc <= Len(DupCalls)
    /\ DupCalls[flight[w].pc].op = "add_household_edge"
    /\ ~flight[w].read
    /\ flight' = [flight EXCEPT ![w].read = TRUE,
                                ![w].existing =
                                   ReadEdgeRecord(edgeBook, DupCalls[flight[w].pc].a)]
    /\ UNCHANGED <<nodes, rels, householdRef, membership, edgeBook>>
    /\ DupFrame

NextDup == \E w \in Workers : DupCall(w) \/ DupEdgeGet(w)

SpecDup == InitDup /\ [][NextDup]_vars

DupDone == \A w \in Workers : flight[w].pc > Len(DupCalls)

MemberSets(members) ==
    [h \in DOMAIN members |-> {members[h][n] : n \in 1..Len(members[h])}]

\* the store one task alone leaves from the store both started from
DupOnce == ApplyCalls(inserted, DupCalls, 1)

-----------------------------------------------------------------------------
(* The fuzzy batch under a fair scheduler (SpecFuzzyLive): Celery runs      *)
(* every task it was sent and beat keeps sending batch_fuzzy_bridging       *)

SpecFuzzyLive ==
    /\ Init /\ [][Next]_vars
    /\ WF_vars(QueueFuzzyTask)
    /\ WF_vars(BatchDrain)
    /\ WF_vars(BridgingFuzzyTask)

FuzzyTask(i) == Task("bridging_fuzzy", i, None)

\* bridging_fuzzy has run for event i: its task is gone and attempt_bridging
\* got as far as the MERGE of the event node before any exception
FuzzyProcessed(i) ==
    /\ FuzzyTask(i) \notin celery
    /\ i \in 1..Len(events)
    /\ Node("Event", events[i].ephem_id) \in nodes

\* a bridging_fuzzy task ends, by an exception in every run (AsyncioRunRaises)
FuzzyTaskEnds == \E t \in celery : t.name = "bridging_fuzzy" /\ t \notin celery'

\* C32: the end of one bridging_fuzzy task, which in every run is an
\* exception caught and logged, takes no other task out of Celery; every id
\* of a drained batch is in the end processed, and an id waiting in the
\* queue is in the end drained
C32_FailureIsolation ==
    /\ [][FuzzyTaskEnds =>
            \E t \in celery : t.name = "bridging_fuzzy" /\ celery' = celery \ {t}]_vars
    /\ \A i \in 1..MaxEvents : (FuzzyTask(i) \in celery) ~> FuzzyProcessed(i)
    /\ \A i \in 1..MaxEvents :
         (\E n \in 1..Len(fuzzyQueue) : fuzzyQueue[n] = IdStr(i))
            ~> (FuzzyTask(i) \in celery \/ FuzzyProcessed(i))

\* two ids were drained in one batch; the task of the first has ended with
\* its exception, leaving no link, and the task of the second is still to run
C32_Witness ==
    /\ Len(events) = 2
    /\ FuzzyProcessed(1)
    /\ rels = EmptyFn
    /\ FuzzyTask(2) \in celery
    /\ fuzzyQueue = <<>>

-----------------------------------------------------------------------------
(* The flush of the daily buffer record by record (SpecFlush): the beat     *)
(* task scans dailyAggSet, then for each record read calls flush_fn and     *)
(* client.remove, while the ingestion process goes on incrementing          *)

MaxFlushes == 2

\* the upserts of _process_daily_aggregate_batch for one record: one per
\* field key, ON CONFLICT ... DO UPDATE SET count = :count; a field whose
\* upsert raises is logged and skipped
UpsertFields(rows, date_str, counts_map, noise, field_fails) ==
    LET written == {<<date_str, f>> : f \in DOMAIN counts_map \ field_fails}
    IN  [k \in DOMAIN rows \cup written |->
            IF k \in written
            THEN apply_differential_privacy(counts_map[k[2]], noise[k[2]])
            ELSE rows[k]]

\* client.remove(key)
RemoveRecord(agg, date_str) == [d \in DOMAIN agg \ {date_str} |-> agg[d]]

\* (variant of the loop body of flush_daily_aggregate: the record is removed
\* whether flush_fn raised or not)
FlushOneRemovesAlways(agg, rows, date_str, counts_map, noise, field_fails, commit_fails) ==
    [agg |-> RemoveRecord(agg, date_str),
     rows |-> IF commit_fails THEN rows
              ELSE UpsertFields(rows, date_str, counts_map, noise, field_fails)]

\* the loop body of AerospikeCache.flush_daily_aggregate for one record of
\* the scan: flush_fn commits the upserts and the record is removed, or
\* flush_fn rolls back and raises (commit_fails) and the remove is skipped
FlushOne(agg, rows, date_str, counts_map, noise, field_fails, commit_fails) ==
    IF commit_fails
    THEN [agg |-> agg, rows |-> rows]
    ELSE [agg |-> RemoveRecord(agg, date_str),
          rows |-> UpsertFields(rows, date_str, counts_map, noise, field_fails)]

\* inserted: per key, the number of Increment calls made, and the number of
\* scans made
InitFlush ==
    /\ InitSystem /\ InitStore /\ InitTables /\ InitNoFlight /\ InitGateOff
    /\ inserted = [made |-> [k \in DailyKeys |-> 0], scans |-> 0]
    /\ lastCall = [op |-> "none"]

\* one call of buffer_increment_daily_aggregate in the ingestion process
FlushIncrement ==
    /\ SumFn(inserted.made) < MaxIncrements
    /\ \E k \in DailyKeys :
        /\ dailyAgg' = IncDaily(dailyAgg, k[1], k[2])
        /\ inserted' = [inserted EXCEPT !.made[k] = @ + 1]
    /\ lastCall' = [op |-> "increment"]
    /\ UNCHANGED <<dailyRows, flight>>
    /\ DailyFrame

\* client.scan(...).foreach(scan_handler): the records of the set as they
\* are at the scan
FlushScan ==
    /\ "flush" \notin DOMAIN flight
    /\ inserted.scans < MaxFlushes
    /\ dailyAgg # EmptyFn
    /\ flight' = [p \in {"flush"} |->
                    [records |-> {[date_str |-> d, counts |-> dailyAgg[d]] :
                                     d \in DOMAIN dailyAgg},
                     failed |-> {}]]
    /\ inserted' = [inserted EXCEPT !.scans = @ + 1]
    /\ lastCall' = [op |-> "scan"]
    /\ UNCHANGED <<dailyAgg, dailyRows>>
    /\ DailyFrame

\* the loop body for one record of the scan; the call returns after the
\* last; failed: the dates of this scan for which flush_fn raised
FlushRecord ==
    /\ "flush" \in DOMAIN flight
    /\ \E rec \in flight["flush"].records,
          field_fails \in SUBSET DailyFields,
          commit_fails \in BOOLEAN,
          noise \in [DailyFields -> NoiseValues] :
        LET r == FlushOne(dailyAgg, dailyRows, rec.date_str, rec.counts, noise,
                          field_fails, commit_fails)
            left == flight["flush"].records \ {rec}
            failed == flight["flush"].failed
                        \cup (IF commit_fails THEN {rec.date_str} ELSE {})
        IN  /\ field_fails \subseteq DOMAIN rec.counts
            /\ \A f \in DailyFields \ DOMAIN rec.counts : noise[f] = 0
            /\ commit_fails => (field_fails = {} /\ \A f \in DailyFields : noise[f] = 0)
            /\ dailyAgg' = r.agg
            /\ dailyRows' = r.rows
            /\ flight' = IF left = {} THEN EmptyFn
                         ELSE [p \in {"flush"} |-> [records |-> left,
                                                    failed |-> failed]]
            /\ lastCall' = [op |-> "flush_record", date_str |-> rec.date_str,
                            counts |-> rec.counts, noise |-> noise,
                            field_fails |-> field_fails,
                            commit_fails |-> commit_fails, left |-> left,
                            failed |-> failed]
    /\ UNCHANGED inserted
    /\ DailyFrame

NextFlush == FlushIncrement \/ FlushScan \/ FlushRecord

SpecFlush == InitFlush /\ [][NextFlush]_vars

\* the step is the loop body of the flush for one record
FlushRecordStep == flight' # flight /\ lastCall'.op = "flush_record"

FlushLeft(fl) == IF "flush" \in DOMAIN fl THEN fl["flush"].records ELSE {}

-----------------------------------------------------------------------------
(* One pass of the loop of advanced_bridging, skips included (SpecSkip):    *)
(* rows of which only the wifi pair reaches the threshold                   *)

EphemD == <<"D">>

\* rows 1 and 2 share email, IP, device and wifi; row 3 shares only the wifi
\* with them; row 4 shares IP and device with them but is two days older
SkipRows ==
    << PairRow(1, EphemA, Email1, <<"W", "1">>),
       PairRow(2, EphemB, Email1, Wifi1),
       [PairRow(3, EphemD, <<"x", "y">>, Wifi1) EXCEPT
            !.partial_keys.hashedIP = <<"q", "r">>,
            !.partial_keys.deviceType = <<"t", "v">>],
       [PairRow(4, EphemC, Email2, Absent) EXCEPT !.timestamp = 2] >>

\* (variant of the loop body without the test ev.id == new_event.id)
BridgeOneNoIdTest(st, new_event, ev) == BridgePair(st, new_event, ev)

\* the loop body for one ev of recent_events that passes the consent and
\* child guards: the id test, the score, the threshold test, the links
BridgeOne(st, new_event, ev) ==
    IF ev.id = new_event.id THEN [st |-> st, raised |-> FALSE]
    ELSE BridgePair(st, new_event, ev)

InitSkip ==
    /\ events = SkipRows
    /\ consentRows = Len(SkipRows)
    /\ anonRows = {}
    /\ celery = {}
    /\ fuzzyQueue = <<>>
    /\ emailIndex = EmptyFn
    /\ dailyAgg = EmptyFn
    /\ resp = NoResponse
    /\ InitStore /\ InitTables /\ InitNoFlight /\ InitGateOff
    /\ inserted = EmptyFn
    /\ lastCall = [new |-> 0, other |-> 0, score |-> 0]

\* merge_event_node for events[i], then the loop body for ev = events[j]
BridgeOneStep ==
    /\ MembershipRoom
    /\ \E i \in 1..Len(events), j \in 1..Len(events) :
        /\ SetStore(BridgeOne(merge_event_node(Store, events[i]),
                              events[i], events[j]).st)
        /\ lastCall' = [new |-> i, other |-> j, score |-> PairScore(i, j).score]
    /\ UNCHANGED <<events, consentRows, anonRows, celery, fuzzyQueue, emailIndex,
                   dailyAgg, resp, gateIn, dailyRows, capRows, flight, gateOut, inserted>>

NextSkip == BridgeOneStep

SpecSkip == InitSkip /\ [][NextSkip]_vars

\* the pass just made was a skip: same id, or a score under the threshold
SkippedPass ==
    /\ lastCall'.new # 0
    /\ \/ events[lastCall'.new].id = events[lastCall'.other].id
       \/ lastCall'.score < get_bridging_threshold

\* the relationships, by type, that join x to x
SelfLinks == {r \in DOMAIN rels : r.from = r.to}

\* C34: a pass of the loop body for a pair with other.id = new.id, or with a
\* score under the threshold, adds no Device, User or Household node (the
\* Event node of the new event is merged before the loop), leaves every
\* relationship, HouseholdRef, Membership list and edge book as it was, and
\* no pass joins a node to itself
C34_SkipsLeaveUnchanged ==
    [][/\ (lastCall' # lastCall /\ SkippedPass)
          => /\ nodes' \ nodes \subseteq {Node("Event", events[lastCall'.new].ephem_id)}
             /\ rels' = rels
             /\ householdRef' = householdRef
             /\ membership' = membership
             /\ edgeBook' = edgeBook
       /\ SelfLinks' = {}]_vars

\* the wifi pair was bridged earlier; the last pass paired row 1 with row 3,
\* which shares its wifiSSID but scores under the threshold, and row 3 has
\* no device and no household
C34_Witness ==
    /\ lastCall.new = 1 /\ lastCall.other = 3
    /\ lastCall.score > 0 /\ lastCall.score < get_bridging_threshold
    /\ InEdgeBook(EphemA)
    /\ RelsOf(EphemD) = {}
    /\ EphemD \notin DOMAIN householdRef

-----------------------------------------------------------------------------
(* Claims on the counts of the flush (SpecFlush) *)

RowCount(rows, k) == IF k \in DOMAIN rows THEN rows[k] ELSE 0

BufferedCount(agg, k) ==
    IF k[1] \in DOMAIN agg /\ k[2] \in DOMAIN agg[k[1]] THEN agg[k[1]][k[2]] ELSE 0

ZeroNoise(noise) == \A f \in DOMAIN noise : noise[f] = 0

\* the record handed to flush_fn is the record as it is now, flush_fn lets
\* every count through unchanged (no noise) and every upsert succeeds
ExactFlushStep ==
    /\ FlushRecordStep
    /\ ~lastCall'.commit_fails
    /\ lastCall'.field_fails = {}
    /\ ZeroNoise(lastCall'.noise)
    /\ lastCall'.date_str \in DOMAIN dailyAgg
    /\ dailyAgg[lastCall'.date_str] = lastCall'.counts

\* C35: counts add up over flush cycles: when, before a flush without noise
\* and without failure, the row of each key of the record plus its buffered
\* count is the number of increments made for the key (the earlier cycles
\* were counted), the row after the flush is the number of increments made
\* for the key over all cycles
C35_CountsAccumulate ==
    [][(/\ ExactFlushStep
        /\ \A f \in DOMAIN lastCall'.counts :
              LET k == <<lastCall'.date_str, f>>
              IN  RowCount(dailyRows, k) + BufferedCount(dailyAgg, k) = inserted.made[k])
       => \A f \in DOMAIN lastCall'.counts :
              LET k == <<lastCall'.date_str, f>>
              IN  RowCount(dailyRows', k) = inserted.made[k]]_vars

\* C36: an Increment made while a flush is between its scan and the
\* removal of the record is not lost: after the loop body of a flush
\* without noise and without failure, the increments buffered for each key
\* of the date are in the count the flush wrote to the row or in the record
\* left in the buffer
C36_ConcurrentIncrementKept ==
    [][(/\ FlushRecordStep
        /\ ~lastCall'.commit_fails
        /\ lastCall'.field_fails = {}
        /\ ZeroNoise(lastCall'.noise))
       => \A f \in DailyFields :
              LET k == <<lastCall'.date_str, f>>
                  written == IF f \in DOMAIN lastCall'.counts
                             THEN RowCount(dailyRows', k) ELSE 0
              IN  written + BufferedCount(dailyAgg', k) = BufferedCount(dailyAgg, k)]_vars

\* C37: the loop body of a flush removes the record of a date only when the
\* upsert of every field of the record succeeded, and the count of a field
\* whose upsert failed is still in the buffer after it
C37_NoSilentDrop ==
    [][FlushRecordStep =>
        LET d == lastCall'.date_str
        IN  /\ (d \in DOMAIN dailyAgg /\ d \notin DOMAIN dailyAgg')
                  => lastCall'.field_fails = {}
            /\ \A f \in lastCall'.field_fails :
                  BufferedCount(dailyAgg', <<d, f>>) >= lastCall'.counts[f]]_vars

-----------------------------------------------------------------------------
(* Order of the pair steps and the published household (SpecPair) *)

\* household_id is the solo household of a user of the graph
SoloHousehold(st, household_id) ==
    \E u \in IdsOf(st, "User") : household_id = hash_sha256(u \o <<"soloHouse">>)

\* household_id was published as a shared (wifi-derived) household: only
\* those have a Membership list
SharedHousehold(st, household_id) == household_id \in DOMAIN st.members

-----------------------------------------------------------------------------
(* The cap counter under concurrent requests (SpecCapConc): each call is a  *)
(* query and a commit, the calls of two request handlers interleaving;      *)
(* frequency_capping has no unique constraint on household_id, so capRows   *)
(* is here the list of the rows of the table                                *)

MaxConcCalls == 4

CapHousehold == <<"hhA">>

\* the positions of the rows of a household
CapMatches(rows, household_id) ==
    {n \in 1..Len(rows) : rows[n].household_id = household_id}

\* FrequencyCapping(household_id=..., daily_impressions=0, cap_limit=5)
NewCapTableRow(household_id) ==
    [household_id |-> household_id, daily_impressions |-> 0,
     cap_limit |-> DEFAULT_CAP_LIMIT]

\* db.commit() of a call that read row `found` (0: no row) with the value
\* `read`: the INSERT of the new row, or the UPDATE of daily_impressions to
\* the value computed from the one read, or nothing for a check
CapCommitRows(rows, op, household_id, found, read) ==
    IF found = 0 THEN Append(rows, NewCapTableRow(household_id))
    ELSE IF op = "increment"
         THEN [rows EXCEPT ![found].daily_impressions = read + 1]
         ELSE rows

\* inserted: the calls started, and the increment_impression calls
\* completed that found a row
InitCapConc ==
    /\ InitSystem /\ InitStore /\ InitNoFlight /\ InitGateOff
    /\ dailyRows = EmptyFn
    /\ capRows = <<>>
    /\ inserted = [started |-> 0, found |-> 0]
    /\ lastCall = [op |-> "none"]

CapConcFrame ==
    UNCHANGED <<events, consentRows, anonRows, celery, fuzzyQueue, emailIndex,
                dailyAgg, nodes, rels, householdRef, membership, edgeBook, resp,
                gateIn, gateOut, dailyRows>>

\* db.query(FrequencyCapping).filter_by(household_id=...).first() of handler
\* p: without ORDER BY any row of the household may be the first
CapQuery(p) ==
    /\ p \notin DOMAIN flight
    /\ inserted.started < MaxConcCalls
    /\ \E op \in {"check", "increment"},
          n \in CapMatches(capRows, CapHousehold) \cup {0} :
        /\ n = 0 <=> CapMatches(capRows, CapHousehold) = {}
        /\ flight' = [q \in DOMAIN flight \cup {p} |->
                        IF q = p
                        THEN [op |-> op, found |-> n,
                              read |-> IF n = 0 THEN 0
                                       ELSE capRows[n].daily_impressions]
                        ELSE flight[q]]
    /\ inserted' = [inserted EXCEPT !.started = @ + 1]
    /\ lastCall' = [op |-> "query"]
    /\ UNCHANGED capRows
    /\ CapConcFrame

\* handler p commits and returns
CapCommit(p) ==
    /\ p \in DOMAIN flight
    /\ LET c == flight[p]
       IN  /\ capRows' = CapCommitRows(capRows, c.op, CapHousehold, c.found, c.read)
           /\ inserted' = [inserted EXCEPT !.found =
                              IF c.op = "increment" /\ c.found # 0 THEN @ + 1 ELSE @]
           /\ lastCall' = [op |-> c.op]
    /\ flight' = [q \in DOMAIN flight \ {p} |-> flight[q]]
    /\ CapConcFrame

NextCapConc == \E p \in Procs : CapQuery(p) \/ CapCommit(p)

SpecCapConc == InitCapConc /\ [][NextCapConc]_vars

\* C40: when no Check or Increment call is under way and one has been made,
\* the household has exactly one frequency_capping row, whose
\* daily_impressions is the number of completed Increment calls that found
\* the row
C40_CapCounterConcurrent ==
    (flight = EmptyFn /\ inserted.started > 0)
       => /\ Cardinality(CapMatches(capRows, CapHousehold)) = 1
          /\ \A n \in CapMatches(capRows, CapHousehold) :
                capRows[n].daily_impressions = inserted.found

====
